---- MODULE Spec2Model ----
(***************************************************************************)
(* Model of commitai (github.com/kaiqui/commitai): the reply parser and    *)
(* backend client of internal/ai/gemini.go, the diff collector of          *)
(* internal/git/git.go and the commit orchestrator of cmd/root.go.         *)
(*                                                                         *)
(* Text is modelled at character level: a Go string is a sequence of       *)
(* one-character strings, so that trimming, prefix tests and splitting on  *)
(* "---", "\n" and " b/" are computed the way the library computes them.   *)
(***************************************************************************)
EXTENDS Integers, Sequences, FiniteSets, TLC

\* ------------------------------------------------------------------------
\* Go strings package, on sequences of characters
\* ------------------------------------------------------------------------

Min(S) == CHOOSE m \in S : \A x \in S : m <= x
Max(S) == CHOOSE m \in S : \A x \in S : x <= m

RECURSIVE Ascending(_)
\* the members of a set of numbers as an ascending sequence
Ascending(S) ==
    IF S = {} THEN <<>> ELSE << Min(S) >> \o Ascending(S \ { Min(S) })

\* unicode.IsSpace restricted to the characters the model's alphabet holds
IsSpace(c) == c \in {" ", "\t", "\n", "\r"}

\* strings.TrimSpace: the text between the first and the last character
\* that is not white space
TrimSpace(s) ==
    LET N == { i \in 1..Len(s) : ~IsSpace(s[i]) }
    IN  IF N = {} THEN <<>> ELSE SubSeq(s, Min(N), Max(N))

\* strings.HasPrefix
HasPrefix(s, prefix) ==
    /\ Len(s) >= Len(prefix)
    /\ SubSeq(s, 1, Len(prefix)) = prefix

\* strings.TrimPrefix
TrimPrefix(s, prefix) ==
    IF HasPrefix(s, prefix) THEN SubSeq(s, Len(prefix) + 1, Len(s)) ELSE s

RECURSIVE SplitFrom(_, _, _, _)
\* the pieces of s from position start on; occ holds every position where
\* sep occurs in s
SplitFrom(s, sep, occ, start) ==
    LET later == { i \in occ : i >= start }
    IN  IF later = {} THEN << SubSeq(s, start, Len(s)) >>
        ELSE << SubSeq(s, start, Min(later) - 1) >>
             \o SplitFrom(s, sep, occ, Min(later) + Len(sep))

\* strings.Split with a non-empty separator: cut at every non-overlapping
\* occurrence of sep, scanning left to right; always at least one piece
Split(s, sep) ==
    SplitFrom(s, sep,
              { i \in 1..(Len(s) - Len(sep) + 1) :
                    SubSeq(s, i, i + Len(sep) - 1) = sep },
              1)

RECURSIVE Join(_, _)
\* strings.Join
Join(parts, sep) ==
    IF Len(parts) = 0 THEN <<>>
    ELSE IF Len(parts) = 1 THEN parts[1]
    ELSE parts[1] \o sep \o Join(Tail(parts), sep)

\* ------------------------------------------------------------------------
\* Literals of the source
\* ------------------------------------------------------------------------

NL == << "\n" >>
Delimiter == << "-", "-", "-" >>
FilePrefix == << "F", "I", "L", "E", ":" >>
MessagePrefix == << "M", "E", "S", "S", "A", "G", "E", ":" >>
AllKey == << "_", "_", "a", "l", "l", "_", "_" >>
ChorePrefix ==
    << "c", "h", "o", "r", "e", ":", " ", "u", "p", "d", "a", "t", "e", " " >>

\* ------------------------------------------------------------------------
\* map[string]string as a function whose domain is the set of keys
\* ------------------------------------------------------------------------

EmptyMap == [k \in {} |-> <<>>]

MapPut(m, key, val) ==
    [k \in (DOMAIN m) \cup {key} |-> IF k = key THEN val ELSE m[k]]

\* ------------------------------------------------------------------------
\* internal/ai/gemini.go: parseCommitResponse
\* ------------------------------------------------------------------------

\* ScanLine with the path taken as written after "FILE:", blanks included
ScanLineRawPath(st, line) ==
    IF HasPrefix(line, FilePrefix)
    THEN [st EXCEPT !.filePath = TrimPrefix(line, FilePrefix),
                    !.inMessage = FALSE]
    ELSE IF HasPrefix(line, MessagePrefix)
    THEN LET rest == TrimSpace(TrimPrefix(line, MessagePrefix))
         IN  [st EXCEPT !.inMessage = TRUE,
                        !.message = IF rest # <<>> THEN rest ELSE @]
    ELSE IF st.inMessage
    THEN [st EXCEPT !.message = IF @ = <<>> THEN line ELSE @ \o NL \o line]
    ELSE st

\* ScanLine with a FILE: line that leaves message capture as it was
ScanLineKeepCapture(st, line) ==
    IF HasPrefix(line, FilePrefix)
    THEN [st EXCEPT !.filePath = TrimSpace(TrimPrefix(line, FilePrefix))]
    ELSE IF HasPrefix(line, MessagePrefix)
    THEN LET rest == TrimSpace(TrimPrefix(line, MessagePrefix))
         IN  [st EXCEPT !.inMessage = TRUE,
                        !.message = IF rest # <<>> THEN rest ELSE @]
    ELSE IF st.inMessage
    THEN [st EXCEPT !.message = IF @ = <<>> THEN line ELSE @ \o NL \o line]
    ELSE st

\* one iteration of the inner loop over the lines of a block; the loop state
\* is the triple of locals filePath, message, inMessage
ScanLine(st, line) ==
    IF HasPrefix(line, FilePrefix)
    THEN [st EXCEPT !.filePath = TrimSpace(TrimPrefix(line, FilePrefix)),
                    !.inMessage = FALSE]
    ELSE IF HasPrefix(line, MessagePrefix)
    THEN LET rest == TrimSpace(TrimPrefix(line, MessagePrefix))
         IN  [st EXCEPT !.inMessage = TRUE,
                        !.message = IF rest # <<>> THEN rest ELSE @]
    ELSE IF st.inMessage
    THEN [st EXCEPT !.message = IF @ = <<>> THEN line ELSE @ \o NL \o line]
    ELSE st

RECURSIVE ScanLines(_, _, _)
ScanLines(lines, i, st) ==
    IF i > Len(lines) THEN st
    ELSE ScanLines(lines, i + 1, ScanLine(st, lines[i]))

\* the locals of one trimmed, non-empty block after its lines were scanned
ScanBlock(block) ==
    ScanLines(Split(block, NL), 1,
              [filePath |-> <<>>, message |-> <<>>, inMessage |-> FALSE])

\* the body of the loop over blocks: what one block does to the result map
ParseBlock(result, rawBlock) ==
    LET block == TrimSpace(rawBlock)
    IN  IF block = <<>> THEN result
        ELSE LET st == ScanBlock(block)
             IN  IF st.filePath # <<>> /\ st.message # <<>>
                 THEN MapPut(result, st.filePath, TrimSpace(st.message))
                 ELSE result

RECURSIVE ParseBlocksFrom(_, _, _)
ParseBlocksFrom(blocks, i, result) ==
    IF i > Len(blocks) THEN result
    ELSE ParseBlocksFrom(blocks, i + 1, ParseBlock(result, blocks[i]))

\* the result map after the loop over the blocks, before the fallback
ParseBlocks(text) == ParseBlocksFrom(Split(text, Delimiter), 1, EmptyMap)

RECURSIVE FallbackFrom(_, _, _, _)
FallbackFrom(chs, i, text, result) ==
    IF i > Len(chs) THEN result
    ELSE FallbackFrom(chs, i + 1, text,
                      MapPut(result, chs[i].Path, TrimSpace(text)))

\* parseCommitResponse whose fallback assigns the reply untrimmed
parseCommitResponseRawFallback(text, chs, gran) ==
    IF ~gran THEN MapPut(EmptyMap, AllKey, TrimSpace(text))
    ELSE LET result == ParseBlocks(text)
         IN  IF Cardinality(DOMAIN result) = 0 /\ Len(chs) > 0
             THEN [k \in { chs[i].Path : i \in 1..Len(chs) } |-> text]
             ELSE result

parseCommitResponse(text, chs, gran) ==
    IF ~gran THEN MapPut(EmptyMap, AllKey, TrimSpace(text))
    ELSE LET result == ParseBlocks(text)
         IN  IF Cardinality(DOMAIN result) = 0 /\ Len(chs) > 0
             THEN FallbackFrom(chs, 1, text, result)
             ELSE result

\* ------------------------------------------------------------------------
\* internal/git/git.go: splitDiffByFile, StagedChanges
\* ------------------------------------------------------------------------

DiffGitPrefix == << "d", "i", "f", "f", " ", "-", "-", "g", "i", "t", " " >>
BSlash == << " ", "b", "/" >>
Tab == << "\t" >>

\* strings.Fields: the maximal runs of characters that are not white space
Fields(s) ==
    LET starts == { i \in 1..Len(s) :
                      ~IsSpace(s[i]) /\ (i = 1 \/ IsSpace(s[i - 1])) }
        ends == { j \in 1..Len(s) :
                      ~IsSpace(s[j]) /\ (j = Len(s) \/ IsSpace(s[j + 1])) }
        order == Ascending(starts)
    IN  [k \in 1..Len(order) |->
            SubSeq(s, order[k], Min({ j \in ends : j >= order[k] }))]

\* the flush of the section being accumulated into the result map
FlushSection(st) ==
    IF st.currentFile # <<>> /\ Len(st.currentLines) > 0
    THEN MapPut(st.result, st.currentFile, Join(st.currentLines, NL))
    ELSE st.result

\* one iteration of the loop over the lines of the combined diff
SplitLine(st, line) ==
    IF HasPrefix(line, DiffGitPrefix)
    THEN LET parts == Split(line, BSlash)
         IN  [result |-> FlushSection(st),
              currentFile |-> IF Len(parts) >= 2 THEN parts[Len(parts)]
                              ELSE st.currentFile,
              currentLines |-> << line >>]
    ELSE [st EXCEPT !.currentLines = Append(@, line)]

RECURSIVE SplitLines(_, _, _)
SplitLines(lines, i, st) ==
    IF i > Len(lines) THEN st
    ELSE SplitLines(lines, i + 1, SplitLine(st, lines[i]))

splitDiffByFile(diff) ==
    FlushSection(SplitLines(Split(diff, NL), 1,
        [result |-> EmptyMap, currentFile |-> <<>>, currentLines |-> <<>>]))

RECURSIVE StatusLinesFrom(_, _)
\* the loop of StagedChanges over the lines of the name-status listing
StatusLinesFrom(lines, i) ==
    IF i > Len(lines) THEN <<>>
    ELSE LET parts == Fields(lines[i])
         IN  (IF lines[i] = <<>> \/ Len(parts) < 2 THEN <<>>
              ELSE << [Path |-> parts[Len(parts)], Status |-> parts[1],
                       Diff |-> <<>>] >>)
             \o StatusLinesFrom(lines, i + 1)

\* StagedChanges without the test for an empty listing
StagedChangesUnchecked(nameStatus, fullDiff) ==
    LET listed == IF TrimSpace(nameStatus) = <<>> THEN <<>>
                  ELSE StatusLinesFrom(Split(TrimSpace(nameStatus), NL), 1)
        diffs == splitDiffByFile(fullDiff)
    IN  [err |-> <<>>,
         changes |-> [i \in 1..Len(listed) |->
             IF listed[i].Path \in DOMAIN diffs
             THEN [listed[i] EXCEPT !.Diff = diffs[listed[i].Path]]
             ELSE listed[i]],
         fileDiffs |-> diffs]

\* StagedChanges on the two outputs of git: [err, changes, fileDiffs]
StagedChanges(nameStatus, fullDiff) ==
    IF TrimSpace(nameStatus) = <<>>
    THEN [err |-> << "no staged changes found" >>, changes |-> <<>>,
          fileDiffs |-> EmptyMap]
    ELSE LET listed == StatusLinesFrom(Split(TrimSpace(nameStatus), NL), 1)
             diffs == splitDiffByFile(fullDiff)
         IN  [err |-> <<>>,
              changes |-> [i \in 1..Len(listed) |->
                  IF listed[i].Path \in DOMAIN diffs
                  THEN [listed[i] EXCEPT !.Diff = diffs[listed[i].Path]]
                  ELSE listed[i]],
              fileDiffs |-> diffs]

\* ---- what git prints for an index ---------------------------------------

\* the path an entry has in HEAD: the old path of a rename, else its path
OldPath(e) == IF e.from = <<>> THEN e.path ELSE e.from

\* the section of one staged entry in `git diff --cached`: its header line
\* and its body lines
SectionLines(e) ==
    << DiffGitPrefix \o << "a", "/" >> \o OldPath(e) \o BSlash \o e.path >>
    \o e.body

RECURSIVE CachedDiff(_)
\* git diff --cached --unified=3: the sections in index order, every line
\* ended by a newline
CachedDiff(idx) ==
    IF Len(idx) = 0 THEN <<>>
    ELSE Join(SectionLines(idx[1]), NL) \o NL \o CachedDiff(Tail(idx))

RECURSIVE NameStatus(_)
\* git diff --cached --name-status: one line "<status>\t<path>" per entry,
\* "<status>\t<old path>\t<path>" for a rename
NameStatus(idx) ==
    IF Len(idx) = 0 THEN <<>>
    ELSE idx[1].status \o Tab
         \o (IF idx[1].from = <<>> THEN <<>> ELSE idx[1].from \o Tab)
         \o idx[1].path \o NL \o NameStatus(Tail(idx))

\* ------------------------------------------------------------------------
\* internal/ai/gemini.go: callGemini
\* ------------------------------------------------------------------------

\* An error value is the chain of its wrapped messages; nil is the empty chain
Nil == <<>>

\* What the HTTP exchange can come to.  kind is "transport" (Post failed),
\* "read" (the body could not be read), "undecodable" (json.Unmarshal
\* failed) or "envelope"; an envelope is the decoded geminiResponse:
\*   error      [present, message]     the *struct Error, nil when absent
\*   candidates a sequence of candidates, each the sequence of the texts of
\*              its Content.Parts

\* callGemini that looks at the candidates before the error object
callGeminiCandidatesFirst(resp) ==
    IF resp.kind = "transport"
    THEN [text |-> <<>>, err |-> << "request to Gemini failed" >>]
    ELSE IF resp.kind = "read"
    THEN [text |-> <<>>, err |-> << "read failed" >>]
    ELSE IF resp.kind = "undecodable"
    THEN [text |-> <<>>, err |-> << "failed to parse Gemini response" >>]
    ELSE LET e == resp.envelope
         IN  IF Len(e.candidates) > 0 /\ Len(e.candidates[1]) > 0
             THEN [text |-> e.candidates[1][1], err |-> Nil]
             ELSE IF e.error.present
             THEN [text |-> <<>>, err |-> << "Gemini API error", e.error.message >>]
             ELSE [text |-> <<>>, err |-> << "empty response from Gemini" >>]

\* the pair (text, error) callGemini returns for an exchange
callGemini(resp) ==
    IF resp.kind = "transport"
    THEN [text |-> <<>>, err |-> << "request to Gemini failed" >>]
    ELSE IF resp.kind = "read"
    THEN [text |-> <<>>, err |-> << "read failed" >>]
    ELSE IF resp.kind = "undecodable"
    THEN [text |-> <<>>, err |-> << "failed to parse Gemini response" >>]
    ELSE LET e == resp.envelope
         IN  IF e.error.present
             THEN [text |-> <<>>, err |-> << "Gemini API error", e.error.message >>]
             ELSE IF Len(e.candidates) = 0 \/ Len(e.candidates[1]) = 0
             THEN [text |-> <<>>, err |-> << "empty response from Gemini" >>]
             ELSE [text |-> e.candidates[1][1], err |-> Nil]

\* GenerateCommitMessages on the exchange: [messages, err, raw]
GenerateCommitMessages(resp, chs, gran) ==
    LET got == callGemini(resp)
    IN  IF got.err # Nil
        THEN [messages |-> EmptyMap, err |-> got.err, raw |-> got.text]
        ELSE [messages |-> parseCommitResponse(got.text, chs, gran),
              err |-> Nil, raw |-> got.text]

\* ------------------------------------------------------------------------
\* internal/ai/gemini.go: buildCommitPrompt
\* ------------------------------------------------------------------------

Intro ==
    << "Y", "o", "u", " ", "a", "r", "e", " ", "a", "n", " ", "e", "x",
       "p", "e", "r", "t", " ", "d", "e", "v", "e", "l", "o", "p", "e",
       "r", " ", "w", "r", "i", "t", "i", "n", "g", " ", "g", "i", "t",
       " ", "c", "o", "m", "m", "i", "t", " ", "m", "e", "s", "s", "a",
       "g", "e", "s", ".", "\n", "\n" >>

ConventionalRules ==
    << "U", "s", "e", " ", "C", "o", "n", "v", "e", "n", "t", "i", "o",
       "n", "a", "l", " ", "C", "o", "m", "m", "i", "t", "s", " ", "f",
       "o", "r", "m", "a", "t", ":", " ", "<", "t", "y", "p", "e", ">",
       "(", "<", "s", "c", "o", "p", "e", ">", ")", ":", " ", "<", "d",
       "e", "s", "c", "r", "i", "p", "t", "i", "o", "n", ">", "\n", "T",
       "y", "p", "e", "s", ":", " ", "f", "e", "a", "t", ",", " ", "f",
       "i", "x", ",", " ", "d", "o", "c", "s", ",", " ", "s", "t", "y",
       "l", "e", ",", " ", "r", "e", "f", "a", "c", "t", "o", "r", ",",
       " ", "t", "e", "s", "t", ",", " ", "c", "h", "o", "r", "e", ",",
       " ", "p", "e", "r", "f", ",", " ", "c", "i", ",", " ", "b", "u",
       "i", "l", "d", "\n", "\n" >>

Conventional ==
    << "c", "o", "n", "v", "e", "n", "t", "i", "o", "n", "a", "l" >>

LangPt == << "p", "t" >>
LangPtBr == << "p", "t", "-", "b", "r" >>

PortugueseDirective ==
    << "W", "r", "i", "t", "e", " ", "c", "o", "m", "m", "i", "t", " ",
       "m", "e", "s", "s", "a", "g", "e", "s", " ", "i", "n", " ", "P",
       "o", "r", "t", "u", "g", "u", "e", "s", "e", " ", "(", "p", "t",
       "-", "B", "R", ")", ".", "\n", "\n" >>

EnglishDirective ==
    << "W", "r", "i", "t", "e", " ", "c", "o", "m", "m", "i", "t", " ",
       "m", "e", "s", "s", "a", "g", "e", "s", " ", "i", "n", " ", "E",
       "n", "g", "l", "i", "s", "h", ".", "\n", "\n" >>

RecentHeader ==
    << "R", "e", "c", "e", "n", "t", " ", "c", "o", "m", "m", "i", "t",
       "s", " ", "f", "o", "r", " ", "c", "o", "n", "t", "e", "x", "t",
       ":", "\n" >>

GranularCountLead == << "I", " ", "h", "a", "v", "e", " " >>
GranularCountTail ==
    << " ", "s", "t", "a", "g", "e", "d", " ", "f", "i", "l", "e", "(",
       "s", ")", ".", " ", "G", "e", "n", "e", "r", "a", "t", "e", " ",
       "O", "N", "E", " ", "c", "o", "m", "m", "i", "t", " ", "m", "e",
       "s", "s", "a", "g", "e", " ", "p", "e", "r", " ", "f", "i", "l",
       "e", ".", "\n" >>

GranularRules ==
    << "R", "u", "l", "e", "s", ":", "\n", "-", " ", "E", "a", "c", "h",
       " ", "m", "e", "s", "s", "a", "g", "e", " ", "m", "u", "s", "t",
       " ", "b", "e", " ", "c", "o", "n", "c", "i", "s", "e", " ", "(",
       "m", "a", "x", " ", "7", "2", " ", "c", "h", "a", "r", "s", " ",
       "f", "o", "r", " ", "s", "u", "b", "j", "e", "c", "t", " ", "l",
       "i", "n", "e", ")", "\n", "-", " ", "A", "d", "d", " ", "a", " ",
       "b", "l", "a", "n", "k", " ", "l", "i", "n", "e", " ", "t", "h",
       "e", "n", " ", "a", " ", "s", "h", "o", "r", "t", " ", "b", "o",
       "d", "y", " ", "i", "f", " ", "n", "e", "e", "d", "e", "d", "\n",
       "-", " ", "O", "u", "t", "p", "u", "t", " ", "f", "o", "r", "m",
       "a", "t", " ", "m", "u", "s", "t", " ", "b", "e", " ", "E", "X",
       "A", "C", "T", "L", "Y", ":", "\n", "\n", "F", "I", "L", "E", ":",
       " ", "<", "f", "i", "l", "e", "p", "a", "t", "h", ">", "\n", "M",
       "E", "S", "S", "A", "G", "E", ":", "\n", "<", "c", "o", "m", "m",
       "i", "t", " ", "m", "e", "s", "s", "a", "g", "e", ">", "\n", "-",
       "-", "-", "\n", "\n", "N", "o", "w", " ", "h", "e", "r", "e", " ",
       "a", "r", "e", " ", "t", "h", "e", " ", "d", "i", "f", "f", "s",
       ":", "\n", "\n" >>

SingleRules ==
    << "G", "e", "n", "e", "r", "a", "t", "e", " ", "O", "N", "E", " ",
       "s", "i", "n", "g", "l", "e", " ", "c", "o", "m", "m", "i", "t",
       " ", "m", "e", "s", "s", "a", "g", "e", " ", "t", "h", "a", "t",
       " ", "s", "u", "m", "m", "a", "r", "i", "z", "e", "s", " ", "A",
       "L", "L", " ", "t", "h", "e", " ", "f", "o", "l", "l", "o", "w",
       "i", "n", "g", " ", "s", "t", "a", "g", "e", "d", " ", "c", "h",
       "a", "n", "g", "e", "s", ".", "\n", "R", "u", "l", "e", "s", ":",
       "\n", "-", " ", "S", "u", "b", "j", "e", "c", "t", " ", "l", "i",
       "n", "e", ":", " ", "m", "a", "x", " ", "7", "2", " ", "c", "h",
       "a", "r", "s", "\n", "-", " ", "A", "d", "d", " ", "a", " ", "b",
       "l", "a", "n", "k", " ", "l", "i", "n", "e", " ", "t", "h", "e",
       "n", " ", "b", "u", "l", "l", "e", "t", " ", "p", "o", "i", "n",
       "t", "s", " ", "l", "i", "s", "t", "i", "n", "g", " ", "k", "e",
       "y", " ", "c", "h", "a", "n", "g", "e", "s", " ", "i", "f", " ",
       "t", "h", "e", "r", "e", " ", "a", "r", "e", " ", "m", "u", "l",
       "t", "i", "p", "l", "e", " ", "f", "i", "l", "e", "s", "\n", "-",
       " ", "O", "u", "t", "p", "u", "t", " ", "O", "N", "L", "Y", " ",
       "t", "h", "e", " ", "c", "o", "m", "m", "i", "t", " ", "m", "e",
       "s", "s", "a", "g", "e", ",", " ", "n", "o", "t", "h", "i", "n",
       "g", " ", "e", "l", "s", "e", ".", "\n", "\n", "S", "t", "a", "g",
       "e", "d", " ", "c", "h", "a", "n", "g", "e", "s", ":", "\n", "\n" >>

StatusLead == << " ", "(", "s", "t", "a", "t", "u", "s", ":", " " >>
StatusTail == << ")", "\n" >>
DiffLabel == << "D", "I", "F", "F", ":", "\n" >>
\* the character U+0060, which a string of this language cannot hold
Backquote == "<backquote>"

FenceOpen == << Backquote, Backquote, Backquote, "\n" >>
FenceClose == << "\n", Backquote, Backquote, Backquote, "\n" >>
TruncatedMarker ==
    << "\n", ".", ".", ".", " ", "(", "t", "r", "u", "n", "c", "a", "t",
       "e", "d", ")" >>

\* the caps on the size of the diff of one file in the prompt
GranularCap == 3000
SingleCap == 2000

DigitChars == << "0", "1", "2", "3", "4", "5", "6", "7", "8", "9" >>

RECURSIVE FormatInt(_)
\* fmt's %d
FormatInt(n) ==
    IF n < 0 THEN << "-" >> \o FormatInt(0 - n)
    ELSE IF n < 10 THEN << DigitChars[n + 1] >>
    ELSE FormatInt(n \div 10) \o << DigitChars[(n % 10) + 1] >>

\* the language directive
LanguageDirective(lang) ==
    IF lang = LangPt \/ lang = LangPtBr THEN PortugueseDirective
    ELSE EnglishDirective

RECURSIVE RecentLines(_)
RecentLines(recent) ==
    IF Len(recent) = 0 THEN <<>>
    ELSE << " ", " " >> \o recent[1] \o NL \o RecentLines(Tail(recent))

\* the prompt up to the blocks of the files
PromptHead(config, recent, gran, n) ==
    Intro
    \o (IF config.CommitStyle = Conventional THEN ConventionalRules ELSE <<>>)
    \o LanguageDirective(config.Language)
    \o (IF Len(recent) > 0 THEN RecentHeader \o RecentLines(recent) \o NL
        ELSE <<>>)
    \o (IF gran
        THEN GranularCountLead \o FormatInt(n) \o GranularCountTail
             \o GranularRules
        ELSE SingleRules)

\* the cut that also shortens a diff of exactly cap bytes
TruncateAtCap(diff, cap) ==
    IF Len(diff) >= cap THEN SubSeq(diff, 1, cap) \o TruncatedMarker ELSE diff

\* diff[:cap] + "\n... (truncated)" when len(diff) > cap
Truncate(diff, cap) ==
    IF Len(diff) > cap THEN SubSeq(diff, 1, cap) \o TruncatedMarker ELSE diff

\* what the loop over changes writes for one file
FileBlock(c, gran) ==
    FilePrefix \o << " " >> \o c.Path \o StatusLead \o c.Status \o StatusTail
    \o (IF c.Diff # <<>>
        THEN (IF gran THEN DiffLabel \o FenceOpen \o Truncate(c.Diff, GranularCap)
              ELSE FenceOpen \o Truncate(c.Diff, SingleCap))
             \o FenceClose
        ELSE <<>>)
    \o NL

RECURSIVE FileBlocks(_, _)
FileBlocks(chs, gran) ==
    IF Len(chs) = 0 THEN <<>>
    ELSE FileBlock(chs[1], gran) \o FileBlocks(Tail(chs), gran)

buildCommitPrompt(config, chs, gran, recent) ==
    PromptHead(config, recent, gran, Len(chs)) \o FileBlocks(chs, gran)

\* ------------------------------------------------------------------------
\* internal/ai/gemini.go: SuggestNextVersion, GenerateReleaseNotes
\* ------------------------------------------------------------------------

VPrefix == << "v" >>

IsDigit(c) == \E i \in 1..Len(DigitChars) : DigitChars[i] = c

\* the test of the scan: HasPrefix(l, "v") || (len(l) > 0 && '0' <= l[0] <= '9')
IsVersionLine(l) == HasPrefix(l, VPrefix) \/ (Len(l) > 0 /\ IsDigit(l[1]))

\* the scan taking the last line that looks like a version
ExtractVersionLastLine(reply) ==
    LET lines == Split(TrimSpace(reply), NL)
        hits == { i \in 1..Len(lines) : IsVersionLine(TrimSpace(lines[i])) }
    IN  IF hits = {} THEN TrimSpace(reply)
        ELSE TrimPrefix(TrimSpace(lines[Max(hits)]), VPrefix)

RECURSIVE ScanVersion(_, _, _)
\* the loop over lines from position i on; the text the function returns
ScanVersion(lines, i, reply) ==
    IF i > Len(lines) THEN TrimSpace(reply)
    ELSE LET l == TrimSpace(lines[i])
         IN  IF IsVersionLine(l) THEN TrimPrefix(l, VPrefix)
             ELSE ScanVersion(lines, i + 1, reply)

\* what SuggestNextVersion makes of the reply text
ExtractVersion(reply) == ScanVersion(Split(TrimSpace(reply), NL), 1, reply)

\* SuggestNextVersion on the exchange: [version, err]
SuggestNextVersion(resp) ==
    LET got == callGemini(resp)
    IN  IF got.err # Nil THEN [version |-> <<>>, err |-> got.err]
        ELSE [version |-> ExtractVersion(got.text), err |-> Nil]

\* GenerateReleaseNotes on the exchange: what callGemini returns
GenerateReleaseNotes(resp) == callGemini(resp)

\* ------------------------------------------------------------------------
\* cmd/root.go: determineMode, the plan of handleGranularCommits
\* ------------------------------------------------------------------------

Slash == << "/" >>

\* the map dirs of determineMode, as the set of its keys
TopDirs(chs) ==
    { Split(chs[i].Path, Slash)[1] :
        i \in { j \in 1..Len(chs) : Len(Split(chs[j].Path, Slash)) > 1 } }

\* determineMode with the test of --all before the test of --granular
determineModeAllFirst(chs, fl) ==
    IF fl.all THEN FALSE
    ELSE IF fl.granular THEN TRUE
    ELSE IF Len(chs) <= 1 THEN FALSE
    ELSE Cardinality(TopDirs(chs)) > 1 \/ Len(chs) >= 3

determineMode(chs, fl) ==
    IF fl.granular THEN TRUE
    ELSE IF fl.all THEN FALSE
    ELSE IF Len(chs) <= 1 THEN FALSE
    ELSE Cardinality(TopDirs(chs)) > 1 \/ Len(chs) >= 3

RECURSIVE BuildPlansSkipping(_, _)
\* the plan loop leaving out the files the mapping has no message for
BuildPlansSkipping(chs, msgs) ==
    IF Len(chs) = 0 THEN <<>>
    ELSE (IF chs[1].Path \in DOMAIN msgs
          THEN << [file |-> chs[1].Path, message |-> msgs[chs[1].Path]] >>
          ELSE <<>>)
         \o BuildPlansSkipping(Tail(chs), msgs)

\* the loop of handleGranularCommits that builds plans from changes
BuildPlans(chs, msgs) ==
    [i \in 1..Len(chs) |->
        [file |-> chs[i].Path,
         message |-> IF chs[i].Path \in DOMAIN msgs THEN msgs[chs[i].Path]
                     ELSE ChorePrefix \o chs[i].Path]]

\* strings.ToLower on the letters the prompt answers are made of
LowerChar(c) ==
    IF c = "N" THEN "n" ELSE IF c = "O" THEN "o" ELSE IF c = "Y" THEN "y"
    ELSE IF c = "E" THEN "e" ELSE c

ToLower(t) == [i \in 1..Len(t) |-> LowerChar(t[i])]

\* the answer test that takes only "no" for a refusal
DeclinedOnlyNo(input) == TrimSpace(ToLower(input)) = << "n", "o" >>

\* the answer test of both prompts: input == "n" || input == "no"
Declined(input) ==
    LET a == TrimSpace(ToLower(input))
    IN  a = << "n" >> \/ a = << "n", "o" >>

\* repo.config stands for what ~/.commitai.json and GEMINI_API_KEY give:
\* "invalid" a file that is not JSON, "nokey" no key in either, "ok" a key

\* the error of config.Load
LoadError(config) ==
    IF config = "invalid" THEN << "invalid config file" >> ELSE Nil

\* Validate that finds no fault with a missing key
ValidateAnything(config) == Nil

\* Config.Validate
Validate(config) ==
    IF config = "nokey" THEN << "Gemini API key not set" >> ELSE Nil

\* main: os.Exit(1) when Execute returns an error
ExitCode(e) == IF e # Nil THEN 1 ELSE 0

\* ------------------------------------------------------------------------
\* cmd/release.go: bumpVersion
\* ------------------------------------------------------------------------

Dot == << "." >>
Zero == << "0" >>
FirstVersion == << "0", ".", "1", ".", "0" >>

DigitValue(c) == (CHOOSE i \in 1..Len(DigitChars) : DigitChars[i] = c) - 1

RECURSIVE DigitsValue(_, _, _)
\* the value of the run of digits of t that starts at position i
DigitsValue(t, i, acc) ==
    IF i > Len(t) \/ ~IsDigit(t[i]) THEN acc
    ELSE DigitsValue(t, i + 1, acc * 10 + DigitValue(t[i]))

\* fmt.Sscanf(t, "%d", &x) on x = 0: blanks are skipped, a sign is taken,
\* then the digits; x stays 0 when no digit follows
ScanInt(t) ==
    LET solid == { i \in 1..Len(t) : ~IsSpace(t[i]) }
        from == IF solid = {} THEN Len(t) + 1 ELSE Min(solid)
        signed == from <= Len(t) /\ t[from] \in { "-", "+" }
        start == IF signed THEN from + 1 ELSE from
        value == DigitsValue(t, start, 0)
    IN  IF signed /\ t[from] = "-" THEN 0 - value ELSE value

\* parts padded with "0" up to three
PadParts(parts) ==
    IF Len(parts) >= 3 THEN parts
    ELSE parts \o [i \in 1..(3 - Len(parts)) |-> Zero]

FormatVersion(maj, min, pat) ==
    FormatInt(maj) \o Dot \o FormatInt(min) \o Dot \o FormatInt(pat)

\* bumpVersion with the cases of the switch in the order minor, major, patch
bumpVersionMinorFirst(tagText, major, minor, patch) ==
    LET tag == TrimPrefix(tagText, VPrefix)
    IN  IF tag = <<>> THEN FirstVersion
        ELSE LET parts == PadParts(Split(tag, Dot))
                 maj == ScanInt(parts[1])
                 min == ScanInt(parts[2])
                 pat == ScanInt(parts[3])
             IN  IF minor THEN FormatVersion(maj, min + 1, 0)
                 ELSE IF major THEN FormatVersion(maj + 1, 0, 0)
                 ELSE FormatVersion(maj, min, pat + 1)

bumpVersion(tagText, major, minor, patch) ==
    LET tag == TrimPrefix(tagText, VPrefix)
    IN  IF tag = <<>> THEN FirstVersion
        ELSE LET parts == PadParts(Split(tag, Dot))
                 maj == ScanInt(parts[1])
                 min == ScanInt(parts[2])
                 pat == ScanInt(parts[3])
             IN  IF major THEN FormatVersion(maj + 1, 0, 0)
                 ELSE IF minor THEN FormatVersion(maj, min + 1, 0)
                 ELSE FormatVersion(maj, min, pat + 1)

\* ------------------------------------------------------------------------
\* State
\* ------------------------------------------------------------------------

VARIABLES
    pc,        \* position of the running invocation
    raw,       \* text of the backend's reply, as callGemini returns it
    records,   \* the (path, message) records the reply was rendered from
    changes,   \* []git.FileChange handed to the AI client
    granular,  \* the mode: TRUE one commit per file, FALSE one commit
    messages,  \* map[string]string returned by GenerateCommitMessages
    index,     \* the entries staged in the git index, in git's path order
    fileDiffs, \* the map splitDiffByFile gave StagedChanges
    flags,     \* the command-line flags: granular, all, dryRun, yes
    repo,      \* the surroundings: isRepo, hasHead, config
    unstaged,  \* changes of the working tree that are not in the index
    startIndex,  \* the index as the command found it
    response,  \* what the HTTP exchange with the backend came to
    callResult,    \* the (text, err) pair callGemini returned
    backendCalls,  \* number of requests sent to the backend
    plans,     \* the plan list of handleGranularCommits
    next,      \* index into plans of the file the commit loop is at
    gitLog,    \* the git commands issued after the backend call
    commits,   \* the commits created, oldest first
    err,       \* the error the command returned, Nil while none
    answer,    \* what was read at the confirmation prompt, empty while none
    cfg,       \* the configuration Load returned: Language, CommitStyle
    flagLanguage,  \* the value of --lang, empty when not given
    recent,    \* the lines of git log handed to the prompt as context
    prompt,    \* the text buildCommitPrompt returned
    relFlags,  \* the flags of release: major, minor, patch, auto, tag,
               \* dryRun, push
    currentTag,    \* what git describe printed, trimmed; empty without a tag
    sinceTag,  \* the log lines of the commits since currentTag
    newVersion,    \* the version the release is for, without the "v"
    notes,     \* the release notes the backend returned
    relLog,    \* what release did, in order: backend calls, tag, file, push
    configFile,  \* ~/.commitai.json
    envKey,    \* GEMINI_API_KEY of the last invocation of config
    cfgFlags   \* the flags of the last invocation of config

textVars == << raw, records, changes, granular, messages, index, fileDiffs >>

flowVars == << flags, repo, unstaged, startIndex, response, callResult, backendCalls,
               plans, next, gitLog, commits, err, answer >>

releaseVars == << cfg, flagLanguage, recent, prompt, relFlags, currentTag, sinceTag,
                  newVersion, notes, relLog >>

vars == << pc, raw, records, changes, granular, messages, index, fileDiffs,
           flags, repo, unstaged, startIndex, response, callResult,
           backendCalls, plans, next, gitLog, commits, err, answer, cfg, flagLanguage,
           recent, prompt, relFlags, currentTag, sinceTag, newVersion, notes, relLog,
           configFile, envKey, cfgFlags >>

configVars == << configFile, envKey, cfgFlags >>

NoFlags == [granular |-> FALSE, all |-> FALSE, dryRun |-> FALSE, yes |-> FALSE]
NoResponse == [kind |-> "none"]
NoResult == [text |-> <<>>, err |-> Nil]

\* the orchestrator's variables while only a pure function is exercised
FlowIdle ==
    /\ flags = NoFlags
    /\ repo = [isRepo |-> TRUE, hasHead |-> TRUE, config |-> "ok"]
    /\ unstaged = {}
    /\ startIndex = <<>>
    /\ response = NoResponse
    /\ callResult = NoResult
    /\ backendCalls = 0
    /\ plans = <<>>
    /\ next = 0
    /\ gitLog = <<>>
    /\ commits = <<>>
    /\ err = Nil
    /\ answer = <<>>

English == << "e", "n" >>

\* DefaultConfig, as far as the prompt reads it
DefaultConfig == [Language |-> English, CommitStyle |-> Conventional]

NoRelFlags == [major |-> FALSE, minor |-> FALSE, patch |-> FALSE,
               auto |-> FALSE, tag |-> <<>>, dryRun |-> FALSE, push |-> FALSE]

\* a flag of config that was not passed: Changed is false, the value is the
\* default ""
NotPassed == [changed |-> FALSE, value |-> <<>>]

NoCfgFlags == [key |-> NotPassed, lang |-> NotPassed, style |-> NotPassed,
               model |-> NotPassed, show |-> FALSE]

NoFile == [kind |-> "absent"]

\* the variables of config while the command is not exercised
ConfigIdle ==
    /\ configFile = NoFile
    /\ envKey = <<>>
    /\ cfgFlags = NoCfgFlags

\* the variables of the prompt and of release while they are not exercised
ReleaseIdle ==
    /\ cfg = DefaultConfig
    /\ flagLanguage = <<>>
    /\ recent = <<>>
    /\ prompt = <<>>
    /\ relFlags = NoRelFlags
    /\ currentTag = <<>>
    /\ sinceTag = <<>>
    /\ newVersion = <<>>
    /\ notes = <<>>
    /\ relLog = <<>>
    /\ ConfigIdle

\* ------------------------------------------------------------------------
\* Replies the backend can send
\* ------------------------------------------------------------------------

MaxRecords == 2
MaxLines == 3

Range(q) == { q[i] : i \in 1..Len(q) }

RECURSIVE SeqsUpTo(_, _)
\* all sequences over S of length at most n
SeqsUpTo(S, n) ==
    IF n = 0 THEN { <<>> }
    ELSE LET shorter == SeqsUpTo(S, n - 1)
         IN  shorter \cup { Append(q, x) : q \in shorter, x \in S }

PathA == << "a", ".", "g", "o" >>
PathB == << "b", ".", "g", "o" >>
PathC == << "s", "/", "c", ".", "g", "o" >>

\* path texts a reply can put after "FILE: ": plain, padded with blanks, empty
RecordPaths == { PathA, PathB, PathC \o << " " >>, <<>> }

MsgFix == << "f", "i", "x", ":", " ", "b", "u", "g" >>
MsgFeat == << "f", "e", "a", "t", ":", " ", "x" >>
MsgBody == MsgFeat \o NL \o NL \o << "-", " ", "y" >>
MsgRule == << "x" >> \o NL \o Delimiter \o << "y" >>
MsgFile == << "u", "p" >> \o NL \o FilePrefix \o << " ", "z" >>
MsgBlank == << " " >>

\* message texts a reply can put after "MESSAGE:\n"
RecordMessages == { MsgFix, MsgFeat, MsgBody, MsgRule, MsgFile, MsgBlank }

Records == [path : RecordPaths, message : RecordMessages]

\* the framing buildCommitPrompt asks for:
\*   FILE: <filepath>\nMESSAGE:\n<commit message>\n---
RenderRecord(r) ==
    FilePrefix \o << " " >> \o r.path \o NL \o MessagePrefix \o NL
    \o r.message \o NL \o Delimiter

RECURSIVE RenderRecords(_, _)
RenderRecords(rs, sep) ==
    IF Len(rs) = 0 THEN <<>>
    ELSE IF Len(rs) = 1 THEN RenderRecord(rs[1])
    ELSE RenderRecord(rs[1]) \o sep \o RenderRecords(Tail(rs), sep)

\* lines of a reply that does not keep to the framing
ReplyLines ==
    { FilePrefix \o << " " >> \o PathA,
      FilePrefix \o PathB,
      FilePrefix,
      MessagePrefix,
      MessagePrefix \o << " " >> \o MsgFix,
      MsgFeat,
      << " " >>,
      <<>>,
      Delimiter }

FileChange(path) == [Path |-> path, Status |-> << "M" >>, Diff |-> <<>>]

ChangeLists ==
    { <<>>, << FileChange(PathA) >>, << FileChange(PathA), FileChange(PathB) >> }

\* ------------------------------------------------------------------------
\* ParseSpec: parseCommitResponse applied to a reply
\* ------------------------------------------------------------------------

ParseInit ==
    /\ pc = "reply"
    /\ \/ /\ records \in SeqsUpTo(Records, MaxRecords) \ { <<>> }
          /\ \E sep \in { <<>>, NL } : raw = RenderRecords(records, sep)
       \/ /\ records = <<>>
          /\ \E ls \in SeqsUpTo(ReplyLines, MaxLines) : raw = Join(ls, NL)
    /\ changes \in ChangeLists
    /\ granular \in BOOLEAN
    /\ messages = EmptyMap
    /\ index = <<>>
    /\ fileDiffs = EmptyMap
    /\ FlowIdle
    /\ ReleaseIdle

ParseReply ==
    /\ pc = "reply"
    /\ messages' = parseCommitResponse(raw, changes, granular)
    /\ pc' = "parsed"
    /\ UNCHANGED << raw, records, changes, granular, index, fileDiffs >>
    /\ UNCHANGED flowVars
    /\ UNCHANGED releaseVars
    /\ UNCHANGED configVars

ParseNext == ParseReply

ParseSpec == ParseInit /\ [][ParseNext]_vars

\* ------------------------------------------------------------------------
\* DiffSpec: StagedChanges applied to what git prints for an index
\* ------------------------------------------------------------------------

MaxStaged == 2

TxtA == << "a", ".", "t", "x", "t" >>
TxtBC == << "b", "/", "c", ".", "t", "x", "t" >>
TxtC == << "c", ".", "t", "x", "t" >>
TxtXBC == << "x", " ", "b", "/", "c", ".", "t", "x", "t" >>

\* the paths a repository can hold, in the order git lists them
RepoPaths == << TxtA, TxtBC, TxtC, TxtXBC >>

HunkHeader == << "@", "@" >>
DiffBodies == { << HunkHeader, << "+", "1" >> >>,
                << HunkHeader, << "-", "1" >>, << "+", "2" >> >> }

\* the indexes with at most n staged entries: a choice among `paths`, kept
\* in git's order, each with a status letter and a diff body
IndexesOver(paths, statuses, bodies, n) ==
    UNION { { [i \in 1..Cardinality(P) |->
                  [path |-> paths[Ascending(P)[i]], from |-> <<>>,
                   status |-> f[i].status, body |-> f[i].body]]
              : f \in [ 1..Cardinality(P) -> [status : statuses, body : bodies] ] }
            : P \in { Q \in SUBSET (1..Len(paths)) : Cardinality(Q) <= n } }

StagedIndexes(n) ==
    IndexesOver(RepoPaths, { << "A" >>, << "M" >> }, DiffBodies, n)

DiffInit ==
    /\ pc = "collect"
    /\ index \in StagedIndexes(MaxStaged)
    /\ changes = <<>>
    /\ fileDiffs = EmptyMap
    /\ raw = <<>>
    /\ records = <<>>
    /\ granular = FALSE
    /\ messages = EmptyMap
    /\ FlowIdle
    /\ ReleaseIdle

CollectStaged ==
    /\ pc = "collect"
    /\ LET got == StagedChanges(NameStatus(index), CachedDiff(index))
       IN  /\ changes' = got.changes
           /\ fileDiffs' = got.fileDiffs
           /\ pc' = IF got.err = <<>> THEN "collected" ELSE "failed"
    /\ UNCHANGED << raw, records, granular, messages, index >>
    /\ UNCHANGED flowVars
    /\ UNCHANGED releaseVars
    /\ UNCHANGED configVars

DiffNext == CollectStaged

DiffSpec == DiffInit /\ [][DiffNext]_vars

\* ------------------------------------------------------------------------
\* Spec: one invocation of the commit command (runCommit)
\* ------------------------------------------------------------------------

MaxFiles == 3

PathD == << "t", "/", "d", ".", "g", "o" >>

\* the paths staged in the runs of the command, in the order git lists them
FlowPaths == << PathA, PathB, PathC, PathD >>

FlowIndexes(n) ==
    IndexesOver(FlowPaths, { << "M" >> }, { << HunkHeader, << "+", "1" >> >> }, n)

OldDir == << "o", "l", "d", "/" >>
Similarity ==
    << "s", "i", "m", "i", "l", "a", "r", "i", "t", "y", " ", "i", "n",
       "d", "e", "x", " ", "1", "0", "0", "%" >>
RenameFrom ==
    << "r", "e", "n", "a", "m", "e", " ", "f", "r", "o", "m", " " >>
RenameTo == << "r", "e", "n", "a", "m", "e", " ", "t", "o", " " >>

\* the entry of a file staged under a new path without a change of content:
\* status R100, the lines git prints for a rename as its body
Renamed(e) ==
    [path |-> e.path, from |-> OldDir \o e.path, status |-> << "R", "1", "0", "0" >>,
     body |-> << Similarity, RenameFrom \o OldDir \o e.path, RenameTo \o e.path >>]

\* the indexes a run can find: staged modifications, and with a HEAD to
\* rename from, any of the entries a rename
RunIndexes(n, hasHead) ==
    IF ~hasHead THEN FlowIndexes(n)
    ELSE UNION { { [i \in 1..Len(idx) |-> IF i \in R THEN Renamed(idx[i])
                                                    ELSE idx[i]]
                   : R \in SUBSET (1..Len(idx)) }
                 : idx \in FlowIndexes(n) }

\* a staged file edited again in the working tree, the edit not staged
EditedAgain(e) == [e EXCEPT !.body = e.body \o << << "+", "2" >> >>]

\* the working trees a run can find over an index: any of the modified
\* files edited again
WorkingTrees(idx) ==
    SUBSET { EditedAgain(idx[i]) : i \in { j \in 1..Len(idx) : idx[j].from = <<>> } }

QuotaExceeded ==
    << "q", "u", "o", "t", "a", " ", "e", "x", "c", "e", "e", "d", "e", "d" >>

\* reply texts for a change list: framed for every file, framed for the
\* first file only, not framed, blank
FramedAll(chs) ==
    RenderRecords([i \in 1..Len(chs) |-> [path |-> chs[i].Path, message |-> MsgFix]],
                  NL) \o NL
FramedFirst(chs) == RenderRecord([path |-> chs[1].Path, message |-> MsgFeat])
Unframed == << " " >> \o MsgBody \o NL
Blank == << " ", "\n" >>

FlowReplies(chs) == { FramedAll(chs), FramedFirst(chs), Unframed, Blank }

NoError == [present |-> FALSE, message |-> <<>>]

Envelopes(chs) ==
    { [error |-> NoError, candidates |-> c] :
        c \in { << << t >> >> : t \in FlowReplies(chs) }
              \cup { <<>>, << <<>> >>, << <<>>, << Unframed >> >>,
                     << << Unframed, Blank >>, << Blank >> >> } }
    \cup
    { [error |-> [present |-> TRUE, message |-> m], candidates |-> c] :
        m \in { QuotaExceeded, <<>> }, c \in { <<>>, << << Unframed >> >> } }

Responses(chs) ==
    { [kind |-> k] : k \in { "transport", "read", "undecodable" } }
    \cup { [kind |-> "envelope", envelope |-> e] : e \in Envelopes(chs) }

\* what the user types at a prompt, with the newline ReadString returns
Answers == { << "\n" >>, << "n", "\n" >>, << "N", "o", " ", "\n" >>,
             << "e", "\n" >> }

\* what the user types as the edited message
EditedMessages == { << "\n" >>, MsgFix \o NL }

Init ==
    /\ pc = "start"
    /\ flags \in [granular : BOOLEAN, all : BOOLEAN, dryRun : BOOLEAN,
                  yes : BOOLEAN]
    /\ repo \in { r \in [isRepo : BOOLEAN, hasHead : BOOLEAN,
                         config : { "ok", "nokey", "invalid" }] :
                    ~r.isRepo => (~r.hasHead /\ r.config = "ok") }
    /\ index \in (IF repo.isRepo THEN RunIndexes(MaxFiles, repo.hasHead)
                  ELSE { <<>> })
    /\ unstaged \in WorkingTrees(index)
    /\ startIndex = index
    /\ raw = <<>>
    /\ records = <<>>
    /\ changes = <<>>
    /\ fileDiffs = EmptyMap
    /\ granular = FALSE
    /\ messages = EmptyMap
    /\ response = NoResponse
    /\ callResult = NoResult
    /\ backendCalls = 0
    /\ plans = <<>>
    /\ next = 0
    /\ gitLog = <<>>
    /\ commits = <<>>
    /\ err = Nil
    /\ answer = <<>>
    /\ ReleaseIdle

\* runCommit returns e
Return(e) == pc' = "exit" /\ err' = e

\* runCommit up to the request: repository, configuration, staged changes,
\* mode
Collect ==
    /\ pc = "start"
    /\ IF ~repo.isRepo
       THEN Return(<< "not a git repository" >>)
            /\ UNCHANGED << changes, fileDiffs, granular >>
       ELSE IF LoadError(repo.config) # Nil
       THEN Return(LoadError(repo.config))
            /\ UNCHANGED << changes, fileDiffs, granular >>
       ELSE IF Validate(repo.config) # Nil
       THEN Return(Nil) /\ UNCHANGED << changes, fileDiffs, granular >>
       ELSE LET got == StagedChanges(NameStatus(index), CachedDiff(index))
            IN  IF got.err # Nil
                THEN Return(got.err) /\ UNCHANGED << changes, fileDiffs, granular >>
                ELSE IF Len(got.changes) = 0
                THEN Return(Nil) /\ UNCHANGED << changes, fileDiffs, granular >>
                ELSE /\ changes' = got.changes
                     /\ fileDiffs' = got.fileDiffs
                     /\ granular' = determineMode(got.changes, flags)
                     /\ pc' = "generate"
                     /\ err' = Nil
    /\ UNCHANGED << raw, records, messages, index, flags, repo, unstaged, startIndex,
                    response, callResult, backendCalls, plans, next, gitLog,
                    commits, answer >>
    /\ UNCHANGED releaseVars
    /\ UNCHANGED configVars

\* what runCommit does with the result of GenerateCommitMessages, were a
\* failed request sent again
AfterGenerateRetrying(got, gran) ==
    IF got.err # Nil
    THEN [pc |-> "generate", err |-> Nil]
    ELSE [pc |-> IF gran THEN "granular" ELSE "single", err |-> Nil]

\* what runCommit does with the result of GenerateCommitMessages
AfterGenerate(got, gran) ==
    IF got.err # Nil
    THEN [pc |-> "exit", err |-> << "AI generation failed" >> \o got.err]
    ELSE [pc |-> IF gran THEN "granular" ELSE "single", err |-> Nil]

\* the one request to the backend and the parsing of its reply
Generate ==
    /\ pc = "generate"
    /\ \E resp \in Responses(changes) :
          LET got == GenerateCommitMessages(resp, changes, granular)
              after == AfterGenerate(got, granular)
          IN  /\ response' = resp
              /\ callResult' = callGemini(resp)
              /\ backendCalls' = backendCalls + 1
              /\ raw' = got.raw
              /\ messages' = got.messages
              /\ pc' = after.pc
              /\ err' = after.err
    /\ UNCHANGED << records, changes, granular, index, fileDiffs, flags, repo,
                    unstaged, startIndex, plans, next, gitLog, commits, answer >>
    /\ UNCHANGED releaseVars
    /\ UNCHANGED configVars

Paths(entries) == { entries[i].path : i \in 1..Len(entries) }

LogEntry(cmd, path, ok) == [cmd |-> cmd, path |-> path, ok |-> ok]

\* git commit -m message on the index: refused when nothing is staged, when
\* the message is blank or when a hook rejects it
CommitSucceeds(idx, message, hookOk) ==
    hookOk /\ Len(idx) > 0 /\ TrimSpace(message) # <<>>

\* what an entry leaves in the working tree once it is out of the index: the
\* file at its path, as a new file when it was renamed, and the removal of
\* the old path of a rename
Parts(e) ==
    IF e.from = <<>> THEN { e }
    ELSE { [path |-> e.path, from |-> <<>>, status |-> << "A" >>, body |-> e.body],
           [path |-> e.from, from |-> <<>>, status |-> << "D" >>, body |-> <<>>] }

\* git restore --staged . : every entry leaves the index; the working tree is
\* not touched, so a path edited again keeps its edit
Unstage(idx, unst) ==
    unst \cup { c \in UNION { Parts(idx[i]) : i \in 1..Len(idx) } :
                  \A t \in unst : t.path # c.path }

\* handleGranularCommits up to the loop: plan, dry run, confirmation,
\* git restore --staged . (its failure ignored)
PlanGranular ==
    /\ pc = "granular"
    /\ plans' = BuildPlans(changes, messages)
    /\ \E input \in Answers :
          /\ (flags.dryRun \/ flags.yes) => input = << "\n" >>
          /\ answer' = IF flags.dryRun \/ flags.yes THEN answer ELSE input
          /\ IF flags.dryRun \/ (~flags.yes /\ Declined(input))
             THEN /\ Return(Nil)
                  /\ UNCHANGED << index, unstaged, gitLog, next >>
             ELSE /\ gitLog' = Append(gitLog,
                                      LogEntry("restore", << "." >>, repo.hasHead))
                  /\ index' = IF repo.hasHead THEN <<>> ELSE index
                  /\ unstaged' = IF repo.hasHead THEN Unstage(index, unstaged)
                                 ELSE unstaged
                  /\ next' = 1
                  /\ pc' = "loop"
                  /\ err' = Nil
    /\ UNCHANGED << raw, records, changes, granular, messages, fileDiffs, flags,
                    repo, startIndex, response, callResult, backendCalls,
                    commits >>
    /\ UNCHANGED releaseVars
    /\ UNCHANGED configVars

\* git add path: the change the working tree holds at path goes to the
\* index, in the place of the entry the index has for the path; a path
\* without a change to stage leaves the index as it is
AddToIndex(idx, unst, path) ==
    LET hit == { e \in unst : e.path = path }
        at == { i \in 1..Len(idx) : idx[i].path = path }
        new == CHOOSE e \in hit : TRUE
    IN  IF hit = {} THEN idx
        ELSE IF at = {} THEN Append(idx, new)
        ELSE [i \in 1..Len(idx) |-> IF i \in at THEN new ELSE idx[i]]

\* one iteration of the commit loop on plan p: git add, then git commit
CommitStep(p, idx, unst, addOk, hookOk) ==
    IF ~addOk
    THEN [index |-> idx, unstaged |-> unst, commit |-> <<>>,
          log |-> << LogEntry("add", p.file, FALSE) >>,
          err |-> << "failed to stage", p.file >>]
    ELSE LET staged == AddToIndex(idx, unst, p.file)
             rest == { e \in unst : e.path # p.file }
         IN  IF CommitSucceeds(staged, p.message, hookOk)
             THEN [index |-> <<>>, unstaged |-> rest,
                   commit |-> << [files |-> Paths(staged), message |-> p.message,
                                  entries |-> Range(staged)] >>,
                   log |-> << LogEntry("add", p.file, TRUE),
                              LogEntry("commit", p.file, TRUE) >>,
                   err |-> Nil]
             ELSE [index |-> staged, unstaged |-> rest, commit |-> <<>>,
                   log |-> << LogEntry("add", p.file, TRUE),
                              LogEntry("commit", p.file, FALSE) >>,
                   err |-> << "failed to commit", p.file, "commit failed" >>]

\* the loop going on to the next file after a failed stage or commit
AfterStepContinuing(step, i, n) ==
    IF i = n THEN [pc |-> "exit", err |-> step.err, next |-> i + 1]
    ELSE [pc |-> "loop", err |-> Nil, next |-> i + 1]

\* where the loop goes after the iteration on file i of n
AfterStep(step, i, n) ==
    IF step.err # Nil THEN [pc |-> "exit", err |-> step.err, next |-> i]
    ELSE IF i = n THEN [pc |-> "exit", err |-> Nil, next |-> i + 1]
    ELSE [pc |-> "loop", err |-> Nil, next |-> i + 1]

\* the body of the loop over plans, for the file at position next
CommitFile ==
    /\ pc = "loop"
    /\ \E addOk, hookOk \in BOOLEAN :
          /\ ~addOk => hookOk
          /\ LET step == CommitStep(plans[next], index, unstaged, addOk, hookOk)
                 after == AfterStep(step, next, Len(plans))
             IN  /\ index' = step.index
                 /\ unstaged' = step.unstaged
                 /\ gitLog' = gitLog \o step.log
                 /\ commits' = commits \o step.commit
                 /\ repo' = IF step.commit # <<>> THEN [repo EXCEPT !.hasHead = TRUE]
                            ELSE repo
                 /\ pc' = after.pc
                 /\ err' = after.err
                 /\ next' = after.next
    /\ UNCHANGED << raw, records, changes, granular, messages, fileDiffs, flags,
                    startIndex, response, callResult, backendCalls, plans,
                    answer >>
    /\ UNCHANGED releaseVars
    /\ UNCHANGED configVars

\* confirmOrEdit: [msg, confirmed]
confirmOrEdit(message, skip, input, edited) ==
    IF skip THEN [msg |-> message, confirmed |-> TRUE]
    ELSE LET a == TrimSpace(ToLower(input))
         IN  IF a = << "n" >> \/ a = << "n", "o" >>
             THEN [msg |-> <<>>, confirmed |-> FALSE]
             ELSE IF a = << "e" >> \/ a = << "e", "d", "i", "t" >>
             THEN [msg |-> TrimSpace(edited), confirmed |-> TRUE]
             ELSE [msg |-> message, confirmed |-> TRUE]

\* handleSingleCommit
SingleCommit ==
    /\ pc = "single"
    /\ \E input \in Answers, edited \in EditedMessages, hookOk \in BOOLEAN :
          /\ (flags.dryRun \/ flags.yes) => input = << "\n" >>
          /\ input # << "e", "\n" >> => edited = << "\n" >>
          /\ (flags.dryRun \/ Declined(input)) => hookOk
          /\ answer' = IF flags.dryRun \/ flags.yes THEN answer ELSE input
          /\ LET c == confirmOrEdit(messages[AllKey], flags.yes, input, edited)
             IN  IF flags.dryRun \/ ~c.confirmed
                 THEN /\ Return(Nil)
                      /\ UNCHANGED << index, gitLog, commits, repo >>
                 ELSE IF CommitSucceeds(index, c.msg, hookOk)
                 THEN /\ commits' = Append(commits,
                              [files |-> Paths(index), message |-> c.msg,
                               entries |-> Range(index)])
                      /\ index' = <<>>
                      /\ gitLog' = Append(gitLog, LogEntry("commit", << "." >>, TRUE))
                      /\ repo' = [repo EXCEPT !.hasHead = TRUE]
                      /\ Return(Nil)
                 ELSE /\ gitLog' = Append(gitLog, LogEntry("commit", << "." >>, FALSE))
                      /\ Return(<< "commit failed" >>)
                      /\ UNCHANGED << index, commits, repo >>
    /\ UNCHANGED << raw, records, changes, granular, messages, fileDiffs, flags,
                    unstaged, startIndex, response, callResult, backendCalls, plans, next >>
    /\ UNCHANGED releaseVars
    /\ UNCHANGED configVars

Next ==
    \/ Collect
    \/ Generate
    \/ PlanGranular
    \/ CommitFile
    \/ SingleCommit

Spec == Init /\ [][Next]_vars

\* ------------------------------------------------------------------------
\* ReleaseSpec: one invocation of the release command (runRelease)
\* ------------------------------------------------------------------------

MaxSince == 2

TagV100 == << "v", "1", ".", "0", ".", "0" >>
TagV123 == << "v", "1", ".", "2", ".", "3" >>
LogLine ==
    << "a", "b", "c", "1", " ", "f", "i", "x", ":", " ", "b", "u", "g" >>
VersionPlain == << "v", "2", ".", "0", ".", "0", "\n" >>
VersionExplained ==
    << "E", "x", "p", "l", "a", "n", "a", "t", "i", "o", "n", ".", ".",
       ".", "\n", "v", "2", ".", "3", ".", "1", "\n" >>
VersionMissing == << " ", "m", "i", "n", "o", "r", " ", "\n" >>
NotesText ==
    << " ", "#", "#", " ", "N", "o", "t", "e", "s", "\n", "-", " ", "x",
       "\n" >>
ReleaseFileLead == << "R", "E", "L", "E", "A", "S", "E", "-" >>
ReleaseFileTail == << ".", "m", "d" >>

VersionReplies == { VersionPlain, VersionExplained, VersionMissing }

\* the exchanges of release with the backend, for the reply texts given
ReleaseResponses(texts) ==
    { [kind |-> "transport"],
      [kind |-> "envelope",
       envelope |-> [error |-> [present |-> TRUE, message |-> QuotaExceeded],
                     candidates |-> <<>>]],
      [kind |-> "envelope", envelope |-> [error |-> NoError, candidates |-> <<>>]] }
    \cup { [kind |-> "envelope",
            envelope |-> [error |-> NoError, candidates |-> << << t >> >>]] :
           t \in texts }

\* the repositories release can run in: without a commit there is no tag
\* and no log; with commits and no tag the log holds every commit
ReleaseInit ==
    /\ pc = "release"
    /\ relFlags \in [major : BOOLEAN, minor : BOOLEAN, patch : BOOLEAN,
                     auto : BOOLEAN, tag : { <<>>, TagV123 },
                     dryRun : BOOLEAN, push : BOOLEAN]
    /\ repo \in { r \in [isRepo : BOOLEAN, hasHead : BOOLEAN,
                         config : { "ok", "nokey", "invalid" }] :
                    ~r.isRepo => (~r.hasHead /\ r.config = "ok") }
    /\ currentTag \in (IF repo.hasHead THEN { <<>>, TagV100 } ELSE { <<>> })
    /\ sinceTag \in { [i \in 1..n |-> LogLine] : n \in 0..MaxSince }
    /\ ~repo.hasHead => sinceTag = <<>>
    /\ (repo.hasHead /\ currentTag = <<>>) => sinceTag # <<>>
    /\ flags = NoFlags
    /\ newVersion = <<>>
    /\ notes = <<>>
    /\ relLog = <<>>
    /\ ConfigIdle
    /\ cfg = DefaultConfig
    /\ flagLanguage = <<>>
    /\ recent = <<>>
    /\ prompt = <<>>
    /\ raw = <<>>
    /\ records = <<>>
    /\ changes = <<>>
    /\ granular = FALSE
    /\ messages = EmptyMap
    /\ index = <<>>
    /\ fileDiffs = EmptyMap
    /\ unstaged = {}
    /\ startIndex = <<>>
    /\ response = NoResponse
    /\ callResult = NoResult
    /\ backendCalls = 0
    /\ plans = <<>>
    /\ next = 0
    /\ gitLog = <<>>
    /\ commits = <<>>
    /\ err = Nil
    /\ answer = <<>>

\* what release leaves alone: the state of the commit command
commitVars == << raw, records, changes, granular, messages, index, fileDiffs,
                 flags, repo, unstaged, startIndex, plans, next, gitLog,
                 commits, cfg,
                 flagLanguage, recent, prompt, relFlags, currentTag,
                 sinceTag >>

RelEvent(op, ok, name, text) == [op |-> op, ok |-> ok, name |-> name, text |-> text]

NewTag(version) == VPrefix \o version

\* runRelease up to the choice of the version: repository, configuration,
\* latest tag, commits since the tag (git log fails without a commit)
ReleaseCollect ==
    /\ pc = "release"
    /\ IF ~repo.isRepo THEN Return(<< "not a git repository" >>)
       ELSE IF LoadError(repo.config) # Nil THEN Return(LoadError(repo.config))
       ELSE IF Validate(repo.config) # Nil THEN Return(Nil)
       ELSE IF ~repo.hasHead THEN Return(<< "exit status 128" >>)
       ELSE IF Len(sinceTag) = 0 THEN Return(Nil)
       ELSE pc' = "version" /\ err' = Nil
    /\ UNCHANGED << response, callResult, backendCalls, answer, newVersion,
                    notes, relLog >>
    /\ UNCHANGED commitVars
    /\ UNCHANGED configVars

\* the new version: --tag, else --auto (a request to the backend), else
\* bumpVersion
ChooseVersion ==
    /\ pc = "version"
    /\ IF relFlags.tag # <<>>
       THEN /\ newVersion' = TrimPrefix(relFlags.tag, VPrefix)
            /\ pc' = "notes"
            /\ UNCHANGED << response, callResult, backendCalls, relLog, err >>
       ELSE IF relFlags.auto
       THEN \E resp \in ReleaseResponses(VersionReplies) :
               LET got == SuggestNextVersion(resp)
               IN  /\ response' = resp
                   /\ callResult' = callGemini(resp)
                   /\ backendCalls' = backendCalls + 1
                   /\ relLog' = Append(relLog,
                          RelEvent("suggest", got.err = Nil, <<>>, got.version))
                   /\ newVersion' = got.version
                   /\ IF got.err # Nil
                      THEN Return(<< "AI version suggestion failed" >> \o got.err)
                      ELSE pc' = "notes" /\ err' = Nil
       ELSE /\ newVersion' = bumpVersion(currentTag, relFlags.major,
                                         relFlags.minor, relFlags.patch)
            /\ pc' = "notes"
            /\ UNCHANGED << response, callResult, backendCalls, relLog, err >>
    /\ UNCHANGED << answer, notes >>
    /\ UNCHANGED commitVars
    /\ UNCHANGED configVars

\* the request for the release notes
GenerateNotes ==
    /\ pc = "notes"
    /\ \E resp \in ReleaseResponses({ NotesText }) :
          LET got == GenerateReleaseNotes(resp)
          IN  /\ response' = resp
              /\ callResult' = got
              /\ backendCalls' = backendCalls + 1
              /\ relLog' = Append(relLog,
                     RelEvent("notes", got.err = Nil, NewTag(newVersion), got.text))
              /\ notes' = got.text
              /\ IF got.err # Nil
                 THEN Return(<< "failed to generate release notes" >> \o got.err)
                 ELSE pc' = "confirm" /\ err' = Nil
    /\ UNCHANGED << answer, newVersion >>
    /\ UNCHANGED commitVars
    /\ UNCHANGED configVars

\* fmt.Scanln(&input): the first blank-separated word of the line typed
Scanln(line) ==
    LET words == Fields(line)
    IN  IF Len(words) = 0 THEN <<>> ELSE words[1]

\* the answer test of release: input == "n" || input == "no"
ReleaseDeclined(line) ==
    LET a == ToLower(TrimSpace(Scanln(line)))
    IN  a = << "n" >> \/ a = << "n", "o" >>

\* the dry-run return and the confirmation prompt (flagYes belongs to the
\* commit command and is false here)
ConfirmRelease ==
    /\ pc = "confirm"
    /\ \E line \in Answers :
          /\ (relFlags.dryRun \/ flags.yes) => line = << "\n" >>
          /\ answer' = IF relFlags.dryRun \/ flags.yes THEN answer ELSE line
          /\ IF relFlags.dryRun \/ (~flags.yes /\ ReleaseDeclined(line))
             THEN Return(Nil)
             ELSE pc' = "tag" /\ err' = Nil
    /\ UNCHANGED << response, callResult, backendCalls, newVersion, notes,
                    relLog >>
    /\ UNCHANGED commitVars
    /\ UNCHANGED configVars

\* git tag -a newTag -m notes
CreateTag ==
    /\ pc = "tag"
    /\ \E tagOk \in BOOLEAN :
          /\ relLog' = Append(relLog,
                 RelEvent("tag", tagOk, NewTag(newVersion), notes))
          /\ IF tagOk THEN pc' = "file" /\ err' = Nil
             ELSE Return(<< "failed to create tag" >>)
    /\ UNCHANGED << response, callResult, backendCalls, answer, newVersion,
                    notes >>
    /\ UNCHANGED commitVars
    /\ UNCHANGED configVars

\* os.WriteFile of the notes (its failure passed over), then the test of
\* --push
WriteNotes ==
    /\ pc = "file"
    /\ \E fileOk \in BOOLEAN :
          relLog' = Append(relLog,
              RelEvent("file", fileOk,
                       ReleaseFileLead \o NewTag(newVersion) \o ReleaseFileTail,
                       notes))
    /\ IF relFlags.push THEN pc' = "push" /\ err' = Nil ELSE Return(Nil)
    /\ UNCHANGED << response, callResult, backendCalls, answer, newVersion,
                    notes >>
    /\ UNCHANGED commitVars
    /\ UNCHANGED configVars

\* git push origin newTag
PushTag ==
    /\ pc = "push"
    /\ \E pushOk \in BOOLEAN :
          /\ relLog' = Append(relLog,
                 RelEvent("push", pushOk, NewTag(newVersion), <<>>))
          /\ IF pushOk THEN Return(Nil) ELSE Return(<< "failed to push tag" >>)
    /\ UNCHANGED << response, callResult, backendCalls, answer, newVersion,
                    notes >>
    /\ UNCHANGED commitVars
    /\ UNCHANGED configVars

ReleaseNext ==
    \/ ReleaseCollect
    \/ ChooseVersion
    \/ GenerateNotes
    \/ ConfirmRelease
    \/ CreateTag
    \/ WriteNotes
    \/ PushTag

ReleaseSpec == ReleaseInit /\ [][ReleaseNext]_vars

\* ------------------------------------------------------------------------
\* CommandSpec: one invocation of either command
\* ------------------------------------------------------------------------

CommandInit == Init \/ ReleaseInit

CommandNext == Next \/ ReleaseNext

CommandSpec == CommandInit /\ [][CommandNext]_vars

\* ------------------------------------------------------------------------
\* PromptSpec: buildCommitPrompt applied to a change list
\* ------------------------------------------------------------------------

MaxPromptFiles == 2

Simple == << "s", "i", "m", "p", "l", "e" >>
LangEs == << "e", "s" >>
LangPtBrMixed == << "p", "t", "-", "B", "R" >>
LangPtUpper == << "P", "T" >>
LangPtBrTitle == << "P", "t", "-", "B", "r" >>
LangPtPt == << "p", "t", "-", "p", "t" >>

\* values of the language setting, in the config file or given with --lang
Languages == { English, LangPt, LangPtBr, LangPtBrMixed, LangPtUpper,
               LangPtBrTitle, LangPtPt, LangEs, <<>> }

FlagLanguages == { <<>>, LangPtBr, LangPtBrMixed, English }

\* a diff of n bytes
DiffOfLength(n) ==
    [i \in 1..n |-> IF i % 10 = 0 THEN "\n" ELSE DigitChars[(i % 10) + 1]]

\* sizes of diffs around the two caps
DiffLengths == { 0, 1, SingleCap - 1, SingleCap, SingleCap + 1,
                 GranularCap - 1, GranularCap, GranularCap + 1 }

StagedFile(path, n) ==
    [Path |-> path, Status |-> << "M" >>, Diff |-> DiffOfLength(n)]

\* change lists of up to n files with diffs of the sizes given
ChangesOfSizes(n, sizes) ==
    UNION { { [i \in 1..k |-> StagedFile(FlowPaths[i], f[i])] :
                f \in [1..k -> sizes] } : k \in 1..n }

PromptInit ==
    /\ pc = "prompt"
    /\ granular \in BOOLEAN
    /\ \/ /\ cfg \in [Language : Languages, CommitStyle : { Conventional, Simple }]
          /\ flagLanguage \in FlagLanguages
          /\ recent \in { <<>>, << LogLine, LogLine >> }
          /\ changes \in ChangesOfSizes(1, { 0, 1 })
       \/ /\ cfg = DefaultConfig
          /\ flagLanguage = <<>>
          /\ recent = <<>>
          /\ changes \in ChangesOfSizes(MaxPromptFiles, DiffLengths)
    /\ prompt = <<>>
    /\ relFlags = NoRelFlags
    /\ currentTag = <<>>
    /\ sinceTag = <<>>
    /\ newVersion = <<>>
    /\ notes = <<>>
    /\ relLog = <<>>
    /\ ConfigIdle
    /\ raw = <<>>
    /\ records = <<>>
    /\ messages = EmptyMap
    /\ index = <<>>
    /\ fileDiffs = EmptyMap
    /\ FlowIdle

\* runCommit's override of the language by --lang, then the prompt
BuildPrompt ==
    /\ pc = "prompt"
    /\ cfg' = IF flagLanguage # <<>> THEN [cfg EXCEPT !.Language = flagLanguage]
              ELSE cfg
    /\ prompt' = buildCommitPrompt(cfg', changes, granular, recent)
    /\ pc' = "prompted"
    /\ UNCHANGED << raw, records, changes, granular, messages, index, fileDiffs,
                    flagLanguage, recent, relFlags, currentTag, sinceTag,
                    newVersion, notes, relLog >>
    /\ UNCHANGED flowVars
    /\ UNCHANGED configVars

PromptNext == BuildPrompt

PromptSpec == PromptInit /\ [][PromptNext]_vars

\* ------------------------------------------------------------------------
\* SuggestSpec: SuggestNextVersion applied to a reply
\* ------------------------------------------------------------------------

LineV231 == << "v", "2", ".", "3", ".", "1" >>
Line200 == << "2", ".", "0", ".", "0" >>
LinePadded == << " ", "v", "1", ".", "1", ".", "0", " " >>
LineExplanation ==
    << "E", "x", "p", "l", "a", "n", "a", "t", "i", "o", "n", ".", ".",
       "." >>
LineVerb == << "v", "e", "r", "s", "i", "o", "n", " ", "b", "u", "m", "p" >>
LineVV == << "v", "v", "3" >>
LineMinor == << "-", " ", "m", "i", "n", "o", "r" >>

\* lines a reply to the version prompt can hold
VersionLines == { LineV231, Line200, LinePadded, LineExplanation, LineVerb,
                  LineVV, LineMinor, <<>> }

\* the reply texts: up to MaxLines lines, with or without a last newline
SuggestReplies ==
    { Join(ls, NL) \o tail :
        ls \in SeqsUpTo(VersionLines, MaxLines), tail \in { <<>>, NL } }

SuggestInit ==
    /\ pc = "suggest"
    /\ response \in ReleaseResponses(SuggestReplies)
    /\ raw = <<>>
    /\ newVersion = <<>>
    /\ callResult = NoResult
    /\ backendCalls = 0
    /\ err = Nil
    /\ records = <<>>
    /\ changes = <<>>
    /\ granular = FALSE
    /\ messages = EmptyMap
    /\ index = <<>>
    /\ fileDiffs = EmptyMap
    /\ flags = NoFlags
    /\ repo = [isRepo |-> TRUE, hasHead |-> TRUE, config |-> "ok"]
    /\ unstaged = {}
    /\ startIndex = <<>>
    /\ plans = <<>>
    /\ next = 0
    /\ gitLog = <<>>
    /\ commits = <<>>
    /\ answer = <<>>
    /\ cfg = DefaultConfig
    /\ flagLanguage = <<>>
    /\ recent = <<>>
    /\ prompt = <<>>
    /\ relFlags = NoRelFlags
    /\ currentTag = <<>>
    /\ sinceTag = <<>>
    /\ notes = <<>>
    /\ relLog = <<>>
    /\ ConfigIdle

\* SuggestNextVersion: the request, then the scan of the reply
SuggestVersion ==
    /\ pc = "suggest"
    /\ LET got == SuggestNextVersion(response)
       IN  /\ callResult' = callGemini(response)
           /\ raw' = callGemini(response).text
           /\ backendCalls' = backendCalls + 1
           /\ newVersion' = got.version
           /\ err' = got.err
    /\ pc' = "suggested"
    /\ UNCHANGED << records, changes, granular, messages, index, fileDiffs,
                    flags, repo, unstaged, startIndex, response, plans, next, gitLog,
                    commits, answer, notes, relLog >>
    /\ UNCHANGED << cfg, flagLanguage, recent, prompt, relFlags, currentTag,
                    sinceTag >>
    /\ UNCHANGED configVars

SuggestNext == SuggestVersion

SuggestSpec == SuggestInit /\ [][SuggestNext]_vars

\* ------------------------------------------------------------------------
\* BumpSpec: bumpVersion applied to a tag
\* ------------------------------------------------------------------------

Tag100 == << "1", ".", "0", ".", "0" >>
TagV0912 == << "v", "0", ".", "9", ".", "1", "2" >>
TagV9099 == << "v", "9", ".", "0", ".", "9", "9" >>
TagV1910 == << "v", "1", "9", ".", "1", "0", ".", "0" >>
TagV25 == << "v", "2", ".", "5" >>
TagV3 == << "v", "3" >>
TagV1234 == << "v", "1", ".", "2", ".", "3", ".", "4" >>
TagRc == << "v", "1", ".", "2", ".", "3", "-", "r", "c", "1" >>
TagNamed == << "r", "e", "l", "e", "a", "s", "e" >>
TagVV == << "v", "v", "1", ".", "0", ".", "0" >>

\* tags of the form X.Y.Z, with and without the v
SemverTags == { TagV100, Tag100, TagV123, TagV0912, TagV9099, TagV1910 }

\* the latest tag of a repository: none, X.Y.Z, or some other name
LatestTags ==
    SemverTags \cup { <<>>, VPrefix, TagV25, TagV3, TagV1234, TagRc, TagNamed,
                      TagVV }

BumpInit ==
    /\ pc = "bump"
    /\ currentTag \in LatestTags
    /\ relFlags \in { [NoRelFlags EXCEPT !.major = a, !.minor = b, !.patch = c] :
                        a, b, c \in BOOLEAN }
    /\ newVersion = <<>>
    /\ cfg = DefaultConfig
    /\ flagLanguage = <<>>
    /\ recent = <<>>
    /\ prompt = <<>>
    /\ sinceTag = <<>>
    /\ notes = <<>>
    /\ relLog = <<>>
    /\ ConfigIdle
    /\ raw = <<>>
    /\ records = <<>>
    /\ changes = <<>>
    /\ granular = FALSE
    /\ messages = EmptyMap
    /\ index = <<>>
    /\ fileDiffs = EmptyMap
    /\ FlowIdle

Bump ==
    /\ pc = "bump"
    /\ newVersion' = bumpVersion(currentTag, relFlags.major, relFlags.minor,
                                 relFlags.patch)
    /\ pc' = "bumped"
    /\ UNCHANGED << raw, records, changes, granular, messages, index, fileDiffs,
                    cfg, flagLanguage, recent, prompt, relFlags, currentTag,
                    sinceTag, notes, relLog >>
    /\ UNCHANGED flowVars
    /\ UNCHANGED configVars

BumpNext == Bump

BumpSpec == BumpInit /\ [][BumpNext]_vars

\* ------------------------------------------------------------------------
\* ModeSpec: determineMode applied to a change list
\* ------------------------------------------------------------------------

PathE == << "s", "/", "e", ".", "g", "o" >>
PathF == << "s", "/", "u", "/", "f", ".", "g", "o" >>

\* staged paths: two without a directory, three under s, one under t
ModePaths == { PathA, PathB, PathC, PathD, PathE, PathF }

\* the change lists of up to n files with distinct paths
ModeChanges(n) ==
    { [i \in 1..Len(q) |-> FileChange(q[i])] :
        q \in { r \in SeqsUpTo(ModePaths, n) :
                  Len(r) > 0 /\ Cardinality(Range(r)) = Len(r) } }

ModeInit ==
    /\ pc = "mode"
    /\ changes \in ModeChanges(MaxFiles)
    /\ flags \in { [NoFlags EXCEPT !.granular = g, !.all = a] : g, a \in BOOLEAN }
    /\ granular = FALSE
    /\ repo = [isRepo |-> TRUE, hasHead |-> TRUE, config |-> "ok"]
    /\ unstaged = {}
    /\ startIndex = <<>>
    /\ response = NoResponse
    /\ callResult = NoResult
    /\ backendCalls = 0
    /\ plans = <<>>
    /\ next = 0
    /\ gitLog = <<>>
    /\ commits = <<>>
    /\ err = Nil
    /\ answer = <<>>
    /\ raw = <<>>
    /\ records = <<>>
    /\ messages = EmptyMap
    /\ index = <<>>
    /\ fileDiffs = EmptyMap
    /\ ReleaseIdle

DetermineMode ==
    /\ pc = "mode"
    /\ granular' = determineMode(changes, flags)
    /\ pc' = "moded"
    /\ UNCHANGED << raw, records, changes, messages, index, fileDiffs, flags,
                    repo, unstaged, startIndex, response, callResult, backendCalls, plans,
                    next, gitLog, commits, err, answer >>
    /\ UNCHANGED releaseVars
    /\ UNCHANGED configVars

ModeNext == DetermineMode

ModeSpec == ModeInit /\ [][ModeNext]_vars

\* ------------------------------------------------------------------------
\* ConfigSpec: invocations of the config command, one after another
\* ------------------------------------------------------------------------

Model20 ==
    << "g", "e", "m", "i", "n", "i", "-", "2", ".", "0", "-", "f", "l",
       "a", "s", "h" >>
Model25 ==
    << "g", "e", "m", "i", "n", "i", "-", "2", ".", "5", "-", "f", "l",
       "a", "s", "h" >>
KeyFile == << "k", "e", "y", "-", "i", "n", "-", "f", "i", "l", "e" >>
KeyFlag == << "k", "e", "y", "-", "b", "y", "-", "f", "l", "a", "g" >>
KeyEnv == << "k", "e", "y", "-", "i", "n", "-", "e", "n", "v" >>

\* DefaultConfig with every field of Config
FullDefaultConfig ==
    [GeminiAPIKey |-> <<>>, Language |-> English, CommitStyle |-> Conventional,
     MaxTokens |-> 1024, Model |-> Model20]

\* json.MarshalIndent of a Config, as the JSON object written: one member
\* per field, gemini_api_key left out when empty (omitempty)
Marshal(c) ==
    LET rest == [language |-> c.Language, commit_style |-> c.CommitStyle,
                 max_tokens |-> c.MaxTokens, model |-> c.Model]
    IN  IF c.GeminiAPIKey = <<>> THEN rest
        ELSE ("gemini_api_key" :> c.GeminiAPIKey) @@ rest

\* the member of a JSON object, or the value the field had
Member(obj, name, had) == IF name \in DOMAIN obj THEN obj[name] ELSE had

\* json.Unmarshal of a JSON object into c: the members the object has
\* replace the fields of c, the other fields stay
Unmarshal(obj, c) ==
    [GeminiAPIKey |-> Member(obj, "gemini_api_key", c.GeminiAPIKey),
     Language |-> Member(obj, "language", c.Language),
     CommitStyle |-> Member(obj, "commit_style", c.CommitStyle),
     MaxTokens |-> Member(obj, "max_tokens", c.MaxTokens),
     Model |-> Member(obj, "model", c.Model)]

JsonFile(obj) == [kind |-> "json", object |-> obj]

\* a file that is not JSON
BrokenFile == [kind |-> "invalid"]

\* config.Load: [cfg, err]; homeOk is false when the home directory is not
\* known, env is the value of GEMINI_API_KEY
Load(file, env, homeOk) ==
    IF homeOk /\ file.kind = "invalid"
    THEN [cfg |-> Nil, err |-> << "invalid config file" >>]
    ELSE LET read == IF homeOk /\ file.kind = "json"
                     THEN Unmarshal(file.object, FullDefaultConfig)
                     ELSE FullDefaultConfig
         IN  [cfg |-> IF env # <<>> THEN [read EXCEPT !.GeminiAPIKey = env]
                      ELSE read,
              err |-> Nil]

\* config.Save: [file, err]; writeOk is false when the file cannot be
\* written
Save(c, file, env, homeOk, writeOk) ==
    IF ~homeOk THEN [file |-> file, err |-> << "no home directory" >>]
    ELSE LET saveCfg == IF env # <<>> THEN [c EXCEPT !.GeminiAPIKey = <<>>]
                        ELSE c
         IN  IF ~writeOk THEN [file |-> file, err |-> << "write failed" >>]
             ELSE [file |-> JsonFile(Marshal(saveCfg)), err |-> Nil]

\* the value a flag gives a field: the value passed unless it is empty
Given(flag, had) == IF flag.value # <<>> THEN flag.value ELSE had

\* runConfig: [file, err]
runConfig(file, env, f, homeOk, writeOk) ==
    LET loaded == Load(file, env, homeOk)
        c == IF loaded.err # Nil THEN FullDefaultConfig ELSE loaded.cfg
    IN  IF f.show \/ (~f.key.changed /\ ~f.lang.changed /\ ~f.style.changed
                      /\ ~f.model.changed)
        THEN [file |-> file, err |-> Nil]
        ELSE LET set == [c EXCEPT !.GeminiAPIKey = Given(f.key, @),
                                  !.Language = Given(f.lang, @),
                                  !.CommitStyle = Given(f.style, @),
                                  !.Model = Given(f.model, @)]
                 saved == Save(set, file, env, homeOk, writeOk)
             IN  [file |-> saved.file,
                  err |-> IF saved.err # Nil
                          THEN << "failed to save config" >> \o saved.err
                          ELSE Nil]

\* a string flag: not passed, or passed with one of the values
FlagValues(values) ==
    { NotPassed } \cup { [changed |-> TRUE, value |-> v] : v \in values }

\* the flags of an invocation; --key and --lang can be passed empty
CfgFlagSets ==
    [key : FlagValues({ KeyFlag, <<>> }), lang : FlagValues({ LangPtBr, <<>> }),
     style : FlagValues({ Simple }), model : FlagValues({ Model25 }),
     show : BOOLEAN]

EnvKeys == { <<>>, KeyEnv }

\* the files the first invocation can find: none, one that is not JSON, one
\* written by hand with the key alone, one saved with a key, one saved
\* without
FirstFiles ==
    { NoFile, BrokenFile, JsonFile("gemini_api_key" :> KeyFile),
      JsonFile(Marshal([FullDefaultConfig EXCEPT !.GeminiAPIKey = KeyFile])),
      JsonFile(Marshal(FullDefaultConfig)) }

ConfigInit ==
    /\ pc = "config"
    /\ configFile \in FirstFiles
    /\ envKey = <<>>
    /\ cfgFlags = NoCfgFlags
    /\ raw = <<>>
    /\ records = <<>>
    /\ changes = <<>>
    /\ fileDiffs = EmptyMap
    /\ granular = FALSE
    /\ messages = EmptyMap
    /\ index = <<>>
    /\ FlowIdle
    /\ cfg = DefaultConfig
    /\ flagLanguage = <<>>
    /\ recent = <<>>
    /\ prompt = <<>>
    /\ relFlags = NoRelFlags
    /\ currentTag = <<>>
    /\ sinceTag = <<>>
    /\ newVersion = <<>>
    /\ notes = <<>>
    /\ relLog = <<>>

\* one invocation of config, from its flags and environment to its exit
ConfigInvocation ==
    /\ pc = "config"
    /\ \E env \in EnvKeys, f \in CfgFlagSets, homeOk, writeOk \in BOOLEAN :
          /\ ~homeOk => writeOk
          /\ LET ran == runConfig(configFile, env, f, homeOk, writeOk)
             IN  /\ configFile' = ran.file
                 /\ err' = ran.err
          /\ envKey' = env
          /\ cfgFlags' = f
    /\ UNCHANGED << pc, flags, repo, unstaged, startIndex, response, callResult,
                    backendCalls, plans, next, gitLog, commits, answer >>
    /\ UNCHANGED textVars
    /\ UNCHANGED releaseVars

ConfigNext == ConfigInvocation

ConfigSpec == ConfigInit /\ [][ConfigNext]_vars

\* ------------------------------------------------------------------------
\* Vocabulary of the claims about the reply grammar
\* ------------------------------------------------------------------------

Contains(s, sub) == Len(Split(s, sub)) > 1

ChangePaths(chs) == { chs[i].Path : i \in 1..Len(chs) }

IsFileLine(l) == HasPrefix(l, FilePrefix)
IsMessageLine(l) == ~IsFileLine(l) /\ HasPrefix(l, MessagePrefix)
Trailing(l) == TrimSpace(TrimPrefix(l, MessagePrefix))

\* a record of ordinary text: a path that is not blank, a message that is
\* not blank, neither holding the delimiter, no message line starting with
\* one of the two keywords
OrdinaryRecord(r) ==
    /\ TrimSpace(r.path) # <<>>
    /\ ~Contains(r.path, Delimiter)
    /\ ~Contains(r.path, NL)
    /\ TrimSpace(r.message) # <<>>
    /\ ~Contains(r.message, Delimiter)
    /\ \A l \in Range(Split(r.message, NL)) :
          ~HasPrefix(l, FilePrefix) /\ ~HasPrefix(l, MessagePrefix)

Framed ==
    /\ records # <<>>
    /\ \A i \in 1..Len(records) : OrdinaryRecord(records[i])
    /\ \A i, j \in 1..Len(records) :
          i # j => TrimSpace(records[i].path) # TrimSpace(records[j].path)

\* C1: a reply of N records of ordinary text with pairwise distinct paths
\* parses, in granular mode, to exactly N entries keyed by the trimmed
\* paths of the FILE: lines, each holding its record's message.
C1_FramedReplyKeys ==
    (pc = "parsed" /\ granular /\ Framed) =>
        /\ DOMAIN messages = { TrimSpace(records[i].path) : i \in 1..Len(records) }
        /\ Cardinality(DOMAIN messages) = Len(records)
        /\ \A i \in 1..Len(records) :
              messages[TrimSpace(records[i].path)] = TrimSpace(records[i].message)

C1_Witness ==
    /\ pc = "parsed" /\ granular /\ Framed
    /\ Len(records) = 2
    /\ DOMAIN messages = { PathA, PathB }
    /\ messages[PathA] = MsgFix /\ messages[PathB] = MsgFeat

\* C2: in granular mode, when the blocks of the reply yield no entry and the
\* change list is not empty, the mapping has exactly the paths of the change
\* list as keys, each mapped to the whole reply trimmed; when the blocks
\* yield an entry the mapping is what the blocks yielded.
C2_FallbackLaw ==
    (pc = "parsed" /\ granular) =>
        IF DOMAIN ParseBlocks(raw) = {} /\ Len(changes) > 0
        THEN /\ DOMAIN messages = ChangePaths(changes)
             /\ \A k \in DOMAIN messages : messages[k] = TrimSpace(raw)
        ELSE messages = ParseBlocks(raw)

C2_Witness ==
    /\ pc = "parsed" /\ granular
    /\ DOMAIN ParseBlocks(raw) = {}
    /\ Len(changes) = 2
    /\ TrimSpace(raw) # raw /\ TrimSpace(raw) # <<>>
    /\ DOMAIN messages = { PathA, PathB }
    /\ messages[PathA] = TrimSpace(raw)

\* C4: every entry the blocks of the reply put in the mapping has a path
\* that is not empty as key and a message that is not empty as value.
C4_EntriesNonEmpty ==
    (pc = "parsed" /\ granular /\ DOMAIN ParseBlocks(raw) # {}) =>
        \A k \in DOMAIN messages : k # <<>> /\ messages[k] # <<>>

\* ---- one block ----------------------------------------------------------

SingleBlock(text) == ~Contains(text, Delimiter) /\ TrimSpace(text) # <<>>

BlockLines(text) == Split(TrimSpace(text), NL)

\* capture is on at line j when the last keyword line before it is MESSAGE:
CaptureOn(ls, j) ==
    LET K == { i \in 1..(j - 1) : IsFileLine(ls[i]) \/ IsMessageLine(ls[i]) }
    IN  K # {} /\ IsMessageLine(ls[Max(K)])

\* what line j adds to the message: nothing, or one piece of text
Contribution(ls, j) ==
    IF IsFileLine(ls[j]) THEN <<>>
    ELSE IF IsMessageLine(ls[j])
    THEN IF Trailing(ls[j]) # <<>> THEN << Trailing(ls[j]) >> ELSE <<>>
    ELSE IF CaptureOn(ls, j) THEN << ls[j] >>
    ELSE <<>>

RECURSIVE Contributions(_, _)
Contributions(ls, from) ==
    IF from > Len(ls) THEN <<>>
    ELSE Contribution(ls, from) \o Contributions(ls, from + 1)

\* the path a block names: the trimmed text of its last FILE: line
BlockPath(ls) ==
    LET F == { i \in 1..Len(ls) : IsFileLine(ls[i]) }
    IN  IF F = {} THEN <<>> ELSE TrimSpace(TrimPrefix(ls[Max(F)], FilePrefix))

\* the mapping a reply of one block gives when the block names `path` and
\* the pieces `pieces` were captured
BlockOutcome(path, pieces) ==
    IF path # <<>> /\ \E i \in 1..Len(pieces) : pieces[i] # <<>>
    THEN messages = MapPut(EmptyMap, path, TrimSpace(Join(pieces, NL)))
    ELSE DOMAIN messages = ChangePaths(changes)

\* the line capture restarts from: the last MESSAGE: line with trailing text
RestartLine(ls) ==
    LET R == { i \in 1..Len(ls) : IsMessageLine(ls[i]) /\ Trailing(ls[i]) # <<>> }
    IN  IF R = {} THEN 1 ELSE Max(R)

\* C5 as stated: the message of a block is made of the trailing text of its
\* MESSAGE: lines and of every line seen while capture is on, joined with
\* newlines, whatever the order and number of FILE: and MESSAGE: lines.
C5_CaptureKeepsEverything ==
    (pc = "parsed" /\ granular /\ SingleBlock(raw)) =>
        BlockOutcome(BlockPath(BlockLines(raw)),
                     Contributions(BlockLines(raw), 1))

\* C5 amended: a MESSAGE: line with trailing text discards what was captured
\* before it; the message of a block is the trailing text of its last such
\* line (the start of the block when there is none) followed by every later
\* line seen while capture is on; the path is the trimmed text of the last
\* FILE: line, and a FILE: line turns capture off.
C5_CaptureRestarts ==
    (pc = "parsed" /\ granular /\ SingleBlock(raw)) =>
        BlockOutcome(BlockPath(BlockLines(raw)),
                     Contributions(BlockLines(raw), RestartLine(BlockLines(raw))))

C5_Witness ==
    /\ pc = "parsed" /\ granular /\ SingleBlock(raw)
    /\ LET ls == BlockLines(raw)
       IN  /\ Len(ls) = 3
           /\ IsMessageLine(ls[1]) /\ Trailing(ls[1]) # <<>>
           /\ IsFileLine(ls[2])
           /\ IsMessageLine(ls[3]) /\ Trailing(ls[3]) # <<>>
    /\ messages = MapPut(EmptyMap, PathA, MsgFix)

\* ---- the diff collector -------------------------------------------------

SectionText(e) == Join(SectionLines(e), NL)

\* a value holds a section's text; the newline that ends the combined diff
\* stays on the value of the last section
HoldsSection(value, e) ==
    value = SectionText(e) \/ value = SectionText(e) \o NL

\* C7: for a combined diff of sections with pairwise distinct paths the map
\* of splitDiffByFile has exactly the sections' paths as keys, each value is
\* the text of the section of that path, and every FileChange with a diff
\* holds the section of its own path.
C7_SplitByFile ==
    pc = "collected" =>
        /\ DOMAIN fileDiffs = { index[i].path : i \in 1..Len(index) }
        /\ \A i \in 1..Len(index) :
              index[i].path \in DOMAIN fileDiffs
                  => HoldsSection(fileDiffs[index[i].path], index[i])
        /\ \A j \in 1..Len(changes) :
              changes[j].Diff # <<>> =>
                  \E i \in 1..Len(index) :
                      /\ index[i].path = changes[j].Path
                      /\ HoldsSection(changes[j].Diff, index[i])

\* ---- the commit command -------------------------------------------------

DefaultMessage(path) == ChorePrefix \o path

\* C3: in granular mode, once the backend call succeeded, the plan has one
\* element per change, in the order of the change list, whose message is
\* the mapping's value for the path when the mapping has the path and
\* "chore: update <path>" otherwise.
C3_PlanCoversEveryFile ==
    (granular /\ pc \in { "loop", "exit" } /\ backendCalls = 1
              /\ callResult.err = Nil) =>
        /\ Len(plans) = Len(changes)
        /\ \A i \in 1..Len(changes) :
              /\ plans[i].file = changes[i].Path
              /\ plans[i].message =
                    IF changes[i].Path \in DOMAIN messages
                    THEN messages[changes[i].Path]
                    ELSE DefaultMessage(changes[i].Path)

\* a reply framed for the first file only: one parsed message, one default
C3_Witness ==
    /\ granular /\ pc = "loop" /\ callResult.err = Nil
    /\ Len(changes) = 2 /\ Len(plans) = 2
    /\ DOMAIN messages = { changes[1].Path }
    /\ plans[1].message = MsgFeat
    /\ plans[2].message = DefaultMessage(changes[2].Path)

\* C6: callGemini on a decoded envelope: an error object gives the backend
\* error with its message, whatever the candidates; otherwise no candidate
\* or a first candidate without parts gives the empty-response error;
\* otherwise the text of the first part of the first candidate, unchanged.
\* Every failure returns the empty text.
C6_EnvelopeClassification ==
    (backendCalls = 1) =>
        /\ callResult.err # Nil => callResult.text = <<>>
        /\ response.kind = "envelope" =>
              LET e == response.envelope
              IN  IF e.error.present
                  THEN callResult = [text |-> <<>>,
                                     err |-> << "Gemini API error", e.error.message >>]
                  ELSE IF Len(e.candidates) = 0 \/ Len(e.candidates[1]) = 0
                  THEN callResult = [text |-> <<>>,
                                     err |-> << "empty response from Gemini" >>]
                  ELSE callResult = [text |-> e.candidates[1][1], err |-> Nil]

\* an error object beside a candidate: the backend error wins
C6_Witness ==
    /\ backendCalls = 1
    /\ response.kind = "envelope"
    /\ response.envelope.error.present
    /\ response.envelope.error.message = QuotaExceeded
    /\ Len(response.envelope.candidates) = 1
    /\ callResult.err = << "Gemini API error", QuotaExceeded >>
    /\ callResult.text = <<>>

\* C8: an invocation sends at most one request to the backend; a failed
\* request ends the invocation with one wrapped error and no git command
\* (restore, add, commit) is issued and no commit created.
C8_OneBackendCall ==
    /\ backendCalls <= 1
    /\ (backendCalls = 1 /\ callResult.err # Nil) =>
          /\ pc = "exit"
          /\ err = << "AI generation failed" >> \o callResult.err
          /\ gitLog = <<>>
          /\ commits = <<>>

C8_Witness ==
    /\ backendCalls = 1
    /\ Len(changes) = 3
    /\ response.kind = "transport"
    /\ pc = "exit"
    /\ err = << "AI generation failed", "request to Gemini failed" >>

\* C9: in granular mode the k-th commit carries the message planned for the
\* k-th file of the change list and, when it is made, the staged set is
\* that file alone.
C9_OneFilePerCommit ==
    granular =>
        \A k \in 1..Len(commits) :
            /\ commits[k].message = plans[k].message
            /\ commits[k].files = { plans[k].file }

\* C10: in granular mode a failed stage or commit of the k-th file is the
\* last git command of the invocation, which ends with an error and a
\* non-zero exit status, keeping the k-1 commits made before it.
C10_FailureStopsSequence ==
    granular =>
        \A j \in 1..Len(gitLog) :
            (gitLog[j].cmd \in { "add", "commit" } /\ ~gitLog[j].ok) =>
                /\ j = Len(gitLog)
                /\ pc = "exit"
                /\ ExitCode(err) = 1
                /\ \E k \in 1..Len(plans) :
                      /\ plans[k].file = gitLog[j].path
                      /\ Len(commits) = k - 1
                      /\ \A m \in 1..(k - 1) :
                            commits[m].message = plans[m].message

\* the second of three files fails to commit: one commit kept, the third
\* file never staged
C10_Witness ==
    /\ granular /\ pc = "exit" /\ Len(plans) = 3
    /\ Len(commits) = 1
    /\ gitLog[Len(gitLog)] = LogEntry("commit", plans[2].file, FALSE)
    /\ ExitCode(err) = 1

\* ------------------------------------------------------------------------
\* Claims about dry runs, refusals and preconditions
\* ------------------------------------------------------------------------

\* the line typed at the prompt is n or no
AnsweredNo(line) == TrimSpace(line) \in { << "n" >>, << "n", "o" >> }

RelOps == { relLog[i].op : i \in 1..Len(relLog) }

\* C11: with --dry-run, or after the answer n or no at the prompt, no
\* commit is created and the index is neither unstaged nor re-staged (no
\* git command is issued and the staged paths stay those of the change
\* list), in single and in granular mode; release with --dry-run creates no
\* tag, writes no file and pushes nothing; a commit exists only if dry-run
\* is off and --yes is set or the answer read was not n/no.
C11_DryRunAndRefusal ==
    /\ (flags.dryRun \/ AnsweredNo(answer)) =>
          /\ commits = <<>>
          /\ gitLog = <<>>
          /\ changes # <<>> => Paths(index) = ChangePaths(changes)
    /\ relFlags.dryRun => RelOps \cap { "tag", "file", "push" } = {}
    /\ commits # <<>> =>
          /\ ~flags.dryRun
          /\ flags.yes \/ (answer # <<>> /\ ~AnsweredNo(answer))

\* a granular run of two files, refused at the prompt
C11_Witness ==
    /\ pc = "exit" /\ granular /\ Len(plans) = 2
    /\ ~flags.dryRun /\ ~flags.yes
    /\ answer = << "n", "\n" >>
    /\ commits = <<>> /\ gitLog = <<>>

\* a release stopped by --dry-run after the notes came back
C11_ReleaseWitness ==
    /\ pc = "exit" /\ relFlags.dryRun /\ relFlags.push
    /\ notes = NotesText
    /\ RelOps = { "notes" }

\* the invocation has ended and nothing was staged when it began
EndedWithNothingStaged == pc = "exit" /\ index = <<>> /\ changes = <<>>

PreconditionReported ==
    /\ err # Nil
    /\ ExitCode(err) = 1
    /\ backendCalls = 0
    /\ commits = <<>>

\* C12 as stated: outside a git repository, or inside one with nothing
\* staged, the commit invocation ends with an error and exit status 1,
\* without a backend call and without a commit.
C12_PreconditionFails ==
    EndedWithNothingStaged => PreconditionReported

\* C12: outside a git repository, or inside one whose configuration holds
\* an API key and where nothing is staged, the commit invocation ends with
\* the error of the failed precondition and exit status 1, without a
\* backend call and without a commit.
C12_PreconditionFailsWithKey ==
    /\ (pc = "exit" /\ ~repo.isRepo) =>
          PreconditionReported /\ err = << "not a git repository" >>
    /\ (EndedWithNothingStaged /\ repo.isRepo /\ repo.config = "ok") =>
          PreconditionReported /\ err = << "no staged changes found" >>

C12_Witness ==
    /\ EndedWithNothingStaged
    /\ repo.isRepo /\ repo.config = "ok"
    /\ err = << "no staged changes found" >>
    /\ backendCalls = 0

\* C13: inside a git repository without an API key (none in the config
\* file, none in GEMINI_API_KEY) the commit and the release invocations go
\* no further than the check of the key: they end with exit status zero,
\* with no backend call, no git command, no commit and no tag.
C13_MissingKeyIsNotFatal ==
    (repo.isRepo /\ repo.config = "nokey") =>
        /\ pc \in { "start", "release", "exit" }
        /\ ExitCode(err) = 0
        /\ backendCalls = 0
        /\ gitLog = <<>>
        /\ commits = <<>>
        /\ relLog = <<>>

\* a release with commits to release and --push, ended at the missing key
C13_Witness ==
    /\ pc = "exit"
    /\ repo.isRepo /\ repo.hasHead /\ repo.config = "nokey"
    /\ sinceTag # <<>> /\ relFlags.push /\ ~relFlags.dryRun
    /\ err = Nil /\ relLog = <<>>

\* a commit invocation with two files staged, ended at the missing key
C13_CommitWitness ==
    /\ pc = "exit"
    /\ repo.isRepo /\ repo.config = "nokey"
    /\ Len(index) = 2 /\ flags.yes /\ ~flags.dryRun
    /\ err = Nil /\ commits = <<>>

\* ------------------------------------------------------------------------
\* Claims about the prompt
\* ------------------------------------------------------------------------

UpperLetters == << "P", "T", "B", "R" >>
LowerLetters == << "p", "t", "b", "r" >>

\* the letters of the language codes, lower-cased
LowerLetter(c) ==
    IF \E i \in 1..Len(UpperLetters) : UpperLetters[i] = c
    THEN LowerLetters[CHOOSE i \in 1..Len(UpperLetters) : UpperLetters[i] = c]
    ELSE c

LowerCased(t) == [i \in 1..Len(t) |-> LowerLetter(t[i])]

\* the language code names Portuguese, whatever the case of its letters
NamesPortuguese(lang) == LowerCased(lang) \in { LangPt, LangPtBr }

\* C14: the prompt holds the Portuguese directive exactly when the
\* language in force (the config's, or --lang when given) is pt or pt-br
\* compared without regard to case, and the English directive otherwise;
\* never both, never neither.
C14_LanguageDirective ==
    pc = "prompted" =>
        /\ Contains(prompt, PortugueseDirective) <=> NamesPortuguese(cfg.Language)
        /\ Contains(prompt, EnglishDirective) <=> ~NamesPortuguese(cfg.Language)

\* what holds of the directive: Portuguese exactly for the codes pt and
\* pt-br written in lower case
C14_LowerCaseOnly ==
    pc = "prompted" =>
        /\ Contains(prompt, PortugueseDirective)
              <=> cfg.Language \in { LangPt, LangPtBr }
        /\ Contains(prompt, EnglishDirective)
              <=> cfg.Language \notin { LangPt, LangPtBr }

\* the diff as the prompt is to hold it under the cap
EmbeddedDiff(diff, cap) ==
    IF Len(diff) <= cap THEN diff
    ELSE [i \in 1..cap |-> diff[i]] \o TruncatedMarker

CapOf(gran) == IF gran THEN GranularCap ELSE SingleCap

ExpectedBlock(c, gran) ==
    FilePrefix \o << " " >> \o c.Path \o StatusLead \o c.Status \o StatusTail
    \o (IF c.Diff = <<>> THEN <<>>
        ELSE (IF gran THEN DiffLabel ELSE <<>>) \o FenceOpen
             \o EmbeddedDiff(c.Diff, CapOf(gran)) \o FenceClose)
    \o NL

RECURSIVE ExpectedBlocks(_, _)
ExpectedBlocks(chs, gran) ==
    IF Len(chs) = 0 THEN <<>>
    ELSE ExpectedBlock(chs[1], gran) \o ExpectedBlocks(Tail(chs), gran)

\* C16: every file of the change list gets its header line; a file with an
\* empty diff gets no diff block; otherwise the block holds the diff as it
\* is when its length is at most the cap of the mode (3000 granular, 2000
\* single) and its first cap bytes followed by "\n... (truncated)" when it
\* is longer.
C16_HardCutoff ==
    pc = "prompted" =>
        prompt = PromptHead(cfg, recent, granular, Len(changes))
                 \o ExpectedBlocks(changes, granular)

\* a granular prompt for a diff of 3001 bytes next to one of 3000
C16_Witness ==
    /\ pc = "prompted" /\ granular /\ Len(changes) = 2
    /\ Len(changes[1].Diff) = GranularCap + 1
    /\ Len(changes[2].Diff) = GranularCap
    /\ Len(Split(prompt, TruncatedMarker)) = 2

\* ------------------------------------------------------------------------
\* Claims about versions
\* ------------------------------------------------------------------------

\* the trimmed line starts with v or with a decimal digit
StartsLikeVersion(l) ==
    Len(l) > 0 /\ (l[1] = "v" \/ l[1] \in Range(DigitChars))

DropOneV(l) == IF Len(l) > 0 /\ l[1] = "v" THEN Tail(l) ELSE l

TrimmedLines(reply) ==
    LET ls == Split(TrimSpace(reply), NL)
    IN  [i \in 1..Len(ls) |-> TrimSpace(ls[i])]

VersionLineNumbers(reply) ==
    { i \in 1..Len(TrimmedLines(reply)) : StartsLikeVersion(TrimmedLines(reply)[i]) }

\* C15: SuggestNextVersion returns the first line of the trimmed reply
\* that, trimmed, starts with v or a digit, with one leading v removed, and
\* the whole trimmed reply when there is no such line; the lines before
\* that line and the lines after it have no part in the result.
C15_FirstVersionLine ==
    (pc = "suggested" /\ err = Nil) =>
        LET hits == VersionLineNumbers(raw)
        IN  IF hits = {} THEN newVersion = TrimSpace(raw)
            ELSE newVersion = DropOneV(TrimmedLines(raw)[Min(hits)])

\* "Explanation...\nv2.3.1\n" gives "2.3.1"
C15_Witness ==
    /\ pc = "suggested" /\ err = Nil
    /\ raw = LineExplanation \o NL \o LineV231 \o NL
    /\ newVersion = << "2", ".", "3", ".", "1" >>

\* two version lines in one reply: the first one is taken
C15_TwoLinesWitness ==
    /\ pc = "suggested" /\ err = Nil
    /\ raw = LineMinor \o NL \o LinePadded \o NL \o Line200
    /\ newVersion = << "1", ".", "1", ".", "0" >>

\* the three numbers of a tag X.Y.Z, the v left out
Numbers(tag) ==
    LET parts == Split(IF Len(tag) > 0 /\ tag[1] = "v" THEN Tail(tag) ELSE tag, Dot)
    IN  [i \in 1..3 |-> ScanInt(parts[i])]

RECURSIVE Decimal(_)
\* the decimal numeral of a natural number
Decimal(n) ==
    IF n < 10 THEN << DigitChars[n + 1] >>
    ELSE Decimal(n \div 10) \o << DigitChars[(n % 10) + 1] >>

Version(x, y, z) == Decimal(x) \o Dot \o Decimal(y) \o Dot \o Decimal(z)

IsNumeral(t) == Len(t) > 0 /\ \A i \in 1..Len(t) : t[i] \in Range(DigitChars)

\* C17: for a tag X.Y.Z (with or without v) bumpVersion gives (X+1).0.0 for
\* major, else X.(Y+1).0 for minor, else X.Y.(Z+1) (patch or no flag), major
\* before minor before patch when several are set; without a tag it gives
\* 0.1.0 whatever the flags; the result never starts with v and always is
\* three numerals joined by dots.
C17_BumpVersion ==
    pc = "bumped" =>
        /\ currentTag \in SemverTags =>
              LET n == Numbers(currentTag)
              IN  newVersion =
                     IF relFlags.major THEN Version(n[1] + 1, 0, 0)
                     ELSE IF relFlags.minor THEN Version(n[1], n[2] + 1, 0)
                     ELSE Version(n[1], n[2], n[3] + 1)
        /\ currentTag = <<>> => newVersion = FirstVersion
        /\ LET parts == Split(newVersion, Dot)
           IN  /\ Len(parts) = 3
               /\ \A i \in 1..3 : IsNumeral(parts[i])

\* v9.0.99 with --major and --minor both set gives 10.0.0
C17_Witness ==
    /\ pc = "bumped"
    /\ currentTag = TagV9099
    /\ relFlags.major /\ relFlags.minor /\ ~relFlags.patch
    /\ newVersion = << "1", "0", ".", "0", ".", "0" >>

\* 1.0.0 with no flag gives 1.0.1
C17_PatchWitness ==
    /\ pc = "bumped"
    /\ currentTag = Tag100
    /\ ~relFlags.major /\ ~relFlags.minor /\ ~relFlags.patch
    /\ newVersion = << "1", ".", "0", ".", "1" >>

\* ------------------------------------------------------------------------
\* Claims about the mode
\* ------------------------------------------------------------------------

HasSlash(p) == \E i \in 1..Len(p) : p[i] = "/"

\* the text of p before its first "/"
FirstComponent(p) ==
    LET at == Min({ i \in 1..Len(p) : p[i] = "/" })
    IN  [i \in 1..(at - 1) |-> p[i]]

FirstComponents(chs) ==
    { FirstComponent(p) : p \in { q \in ChangePaths(chs) : HasSlash(q) } }

C18_BothFlagsWitness ==
    /\ pc = "moded" /\ flags.granular /\ flags.all
    /\ Len(changes) = 1
    /\ granular

\* ------------------------------------------------------------------------
\* Claims about the release flow
\* ------------------------------------------------------------------------

\* an event of kind op that succeeded lies before position j of the log
DoneBefore(op, j) == \E i \in 1..(j - 1) : relLog[i].op = op /\ relLog[i].ok

\* the order of the effects of release: tag after the notes came back and
\* the prompt was not refused, file with the notes as they came after the
\* tag, push with --push after the tag, nothing after a failed tag
ReleaseOrdered ==
    \A j \in 1..Len(relLog) :
        /\ relLog[j].op = "tag" =>
              /\ DoneBefore("notes", j)
              /\ relLog[j].text = notes
              /\ ~relFlags.dryRun
              /\ ~AnsweredNo(answer)
              /\ ~relLog[j].ok => j = Len(relLog)
        /\ relLog[j].op = "file" =>
              /\ DoneBefore("tag", j)
              /\ relLog[j].name = ReleaseFileLead \o VPrefix \o newVersion
                                  \o ReleaseFileTail
              /\ relLog[j].text = callResult.text
        /\ relLog[j].op = "push" =>
              /\ DoneBefore("tag", j)
              /\ relFlags.push

\* release has ended in a repository with a key configured and without a
\* commit since the latest tag
EndedWithNothingToRelease ==
    pc = "exit" /\ repo.isRepo /\ repo.config = "ok" /\ sinceTag = <<>>

\* C19: the effects of release come in order (the tag only after the notes
\* were generated and the prompt not refused, the file RELEASE-<newTag>.md
\* with the notes verbatim only after the tag, the push only with --push
\* and after the tag, neither file nor push after a failed tag), and
\* without a commit since the latest tag the flow ends with exit status
\* zero before any backend call, tag, file or push.
C19_ReleaseOrder ==
    /\ ReleaseOrdered
    /\ EndedWithNothingToRelease =>
          ExitCode(err) = 0 /\ backendCalls = 0 /\ relLog = <<>>

\* what holds: the order of the effects, and the quiet end when the
\* repository has commits but none since its latest tag
C19_ReleaseOrderWithHistory ==
    /\ ReleaseOrdered
    /\ EndedWithNothingToRelease => backendCalls = 0 /\ relLog = <<>>
    /\ (EndedWithNothingToRelease /\ repo.hasHead) => ExitCode(err) = 0

\* a release that went through: notes, tag, file, push
C19_Witness ==
    /\ pc = "exit" /\ err = Nil
    /\ [i \in 1..Len(relLog) |-> relLog[i].op] = << "notes", "tag", "file", "push" >>
    /\ \A i \in 1..Len(relLog) : relLog[i].ok

\* ------------------------------------------------------------------------
\* Claims about the round trip of records
\* ------------------------------------------------------------------------

IsTrimmed(t) == t # <<>> /\ TrimSpace(t) = t

\* records of distinct trimmed paths and trimmed messages, whatever the
\* messages hold
RoundTripRecords ==
    /\ records # <<>>
    /\ \A i \in 1..Len(records) :
          IsTrimmed(records[i].path) /\ IsTrimmed(records[i].message)
    /\ \A i, j \in 1..Len(records) :
          records[i].path = records[j].path => i = j

\* C20: records of distinct non-empty trimmed paths and non-empty trimmed
\* messages, rendered as "FILE: <path>\nMESSAGE:\n<message>\n---" and
\* concatenated, parse in granular mode to exactly the original message of
\* every path, also for messages of several lines and for messages that
\* hold "---" or a line starting with FILE: or MESSAGE:.
C20_RecordRoundTrip ==
    (pc = "parsed" /\ granular /\ RoundTripRecords) =>
        /\ DOMAIN messages = { records[i].path : i \in 1..Len(records) }
        /\ \A i \in 1..Len(records) :
              messages[records[i].path] = records[i].message

\* what holds: the round trip of the records whose messages hold neither
\* the delimiter nor a line starting with a keyword
C20_OrdinaryRoundTrip ==
    (pc = "parsed" /\ granular /\ RoundTripRecords
       /\ \A i \in 1..Len(records) : OrdinaryRecord(records[i])) =>
        /\ DOMAIN messages = { records[i].path : i \in 1..Len(records) }
        /\ \A i \in 1..Len(records) :
              messages[records[i].path] = records[i].message

\* ------------------------------------------------------------------------
\* Claims about what the granular commits record
\* ------------------------------------------------------------------------

\* a granular run that came to its end without an error, having committed
GranularSuccess == granular /\ pc = "exit" /\ err = Nil /\ commits # <<>>

\* the changes the commits of the run recorded
Committed == UNION { commits[k].entries : k \in 1..Len(commits) }

\* the changes still in the index or in the working tree alone
Uncommitted == Range(index) \cup unstaged

\* C21: a granular run that completes successfully commits exactly what was
\* staged when the command started: every staged file is committed with the
\* content the index held for it at start (an edit of the working tree that
\* was not staged is not committed), and nothing that was staged at start,
\* the removal side of a rename included, remains uncommitted at the end.
C21_CommitsWhatWasStaged ==
    GranularSuccess =>
        \A i \in 1..Len(startIndex) :
            /\ \E c \in Committed : c.path = startIndex[i].path
            /\ \A c \in Committed :
                  c.path = startIndex[i].path => c.body = startIndex[i].body
            /\ \A part \in Parts(startIndex[i]) :
                  \A t \in Uncommitted : t.path # part.path

\* a file staged with one edit and edited again: its commit records both
C21_EditCommitted ==
    /\ GranularSuccess
    /\ \E i \in 1..Len(startIndex) :
          EditedAgain(startIndex[i]) \in Committed

\* a staged rename: the new path is committed, the removal of the old path
\* is left in the working tree
C21_RemovalLeft ==
    /\ GranularSuccess
    /\ \E i \in 1..Len(startIndex) :
          /\ startIndex[i].from # <<>>
          /\ \E c \in Committed : c.path = startIndex[i].path
          /\ \E t \in unstaged : t.path = startIndex[i].from

\* two staged modifications, neither edited again, on a repository with
\* commits: each commit records what the index held
C21_CleanRun ==
    /\ GranularSuccess
    /\ Len(startIndex) = 2
    /\ Committed = Range(startIndex)
    /\ Uncommitted = {}

\* ------------------------------------------------------------------------
\* Claims about the stored API key
\* ------------------------------------------------------------------------

\* the API key ~/.commitai.json holds, "" when it holds none
StoredKey(file) ==
    IF file.kind = "json" THEN Member(file.object, "gemini_api_key", <<>>)
    ELSE <<>>

\* the invocation did not pass --key and the stored key is as it was
KeyLeftAlone ==
    ~cfgFlags'.key.changed => StoredKey(configFile') = StoredKey(configFile)

\* the key of the environment is not the one the file holds
EnvKeyNotStored == StoredKey(configFile) # KeyEnv

\* C22: across any sequence of config invocations, an invocation that does
\* not pass --key leaves the API key stored in ~/.commitai.json unchanged
\* (changing language, style or model never removes or alters it), and a
\* key that came only from GEMINI_API_KEY is never written to the file.
C22_StoredKeyKept == [][KeyLeftAlone]_vars /\ []EnvKeyNotStored

\* the part of C22 about the environment: the key of GEMINI_API_KEY never
\* reaches the file
C22_EnvKeyNeverStored == pc = "config" => EnvKeyNotStored

\* the part of C22 about --key, for invocations without GEMINI_API_KEY in
\* the environment
C22_KeyKeptWithoutEnv == [][envKey' = <<>> => KeyLeftAlone]_vars

\* config --lang pt-br with GEMINI_API_KEY set, on a file that held a key:
\* the file is written again without its key
C22_KeyRemoved ==
    /\ pc = "config"
    /\ envKey = KeyEnv
    /\ ~cfgFlags.key.changed /\ cfgFlags.lang.value = LangPtBr
    /\ err = Nil
    /\ configFile = JsonFile(Marshal([FullDefaultConfig EXCEPT !.Language = LangPtBr]))

====
